---- MODULE Spec2Model ----
(***************************************************************************)
(* go-paginate: the typed cursor codec (EncodeCursor / DecodeCursor), the  *)
(* Range model and the Range header parser (ParseRangeHeader), the offset  *)
(* Paginator and the CursorPaginator as objects, alone and shared between  *)
(* goroutines, the lenient parsers (FromQuery, FromMap, CursorFromQuery)   *)
(* and the response helpers (BuildLinkHeader, NewRangeResponse).           *)
(*                                                                         *)
(* Text is modelled as what it is: a Range header, a cursor token and the  *)
(* JSON under a token are sequences of one-character strings, one per      *)
(* byte.  Go's int64 (and int, on a 64-bit platform)                       *)
(* is a two's complement integer of Int64Bits bits, and int on a 32-bit    *)
(* platform one of Int32Bits bits; the widths are scaled                   *)
(* down so that the values stay inside the model checker's integers, and   *)
(* every operation that can overflow wraps as the Go operation does.       *)
(* A Go pointer result is <<>> for nil and <<v>> for a pointer to v.       *)
(***************************************************************************)
EXTENDS Integers, Sequences, FiniteSets, TLC

VARIABLES
    rpc,      \* range side: "start" (inputs drawn), "built" (constructor returned)
    rin,      \* the input of the constructor: a header text or NewRange arguments
    rng,      \* the *Range the constructor returned (<<>> is nil)
    rerr,     \* the error the constructor returned
    rcall,    \* the last method called on rng: "none", "Size", "Validate", "ToPaginator"
    rsize,    \* the result of Size()
    rverr,    \* the result of Validate()
    rpag,     \* the result of ToPaginator()
    cpc,      \* codec side: "start", "token" (a token is in hand), "decoded"
    cin,      \* the input: a payload to encode under a type T, or a token someone forged
    ctoken,   \* the cursor token in hand
    cencerr,  \* the error EncodeCursor returned
    ctamper,  \* what happened to the token since EncodeCursor returned it
    cvia,     \* the decoder called: "DecodeCursor" or "Decode" (of a CursorPaginator)
    cdtype,   \* the type parameter of the decoding call
    cout,     \* the *CursorData the decoder returned (<<>> is nil)
    cerr,     \* the error the decoder returned
    intSize,  \* paginator side: the width in bits of int on the platform
    heap,     \* the Paginator / CursorPaginator objects allocated; a pointer is an index
    hist,     \* the calls made so far, the latest last
    shared,   \* goroutine side: the Paginator several goroutines share
    gor,      \* each goroutine's call: its position, registers and result
    clones,   \* the Paginators the goroutines allocated
    qin,      \* query side: the query values or the map a parser is given
    qout,     \* what the parser returned
    xin,      \* response side: the arguments of a response helper
    xout,     \* what the helper returned
    bcur,     \* builder side: the paginator a chain of With* calls has reached
    bsteps,   \* the number of calls of the chain
    items,    \* traversal side: the ids of the server's list, in order
    elimit,   \* the limit the client asks for
    ecursor,  \* the cursor of the client's next request ("" on the first)
    epages,   \* the pages received so far, each a sequence of ids
    epc       \* "ready" (a request can be sent), "done" (no next cursor), "failed"

rvars == <<rpc, rin, rng, rerr, rcall, rsize, rverr, rpag>>
cvars == <<cpc, cin, ctoken, cencerr, ctamper, cvia, cdtype, cout, cerr>>
pvars == <<intSize, heap, hist>>
tvars == <<shared, gor, clones>>
qvars == <<qin, qout>>
xvars == <<xin, xout>>
bvars == <<bcur, bsteps>>
evars == <<items, elimit, ecursor, epages, epc>>
vars == <<rvars, cvars, pvars, tvars, qvars, xvars, bvars, evars>>

----------------------------------------------------------------------------
(* Bounds of the model *)

\* width, in bits, of the model's int64 and int
Int64Bits == 24
\* exhaustive Range headers: every text over HeaderAlphabet up to this length
MaxHeaderLen == 5
\* width, in bits, of the model's int on a 32-bit platform
Int32Bits == 12
\* calls made on the objects of one run of the paginator side
MaxCalls == 2
\* goroutines that share one Paginator
NumGoroutines == 2
\* users in the list of the example server
MaxChain == 3

MaxItems == 4
\* the largest limit the client of the example server asks for
MaxLimit == 3

----------------------------------------------------------------------------
(* Program constants and sentinel errors *)

DefaultPage == 1
DefaultPageSize == 20
MaxPageSize == 1000
MinPageSize == 1

NoError == "nil"
ErrInvalidPage == "ErrInvalidPage"
ErrInvalidPageSize == "ErrInvalidPageSize"
ErrInvalidCursor == "ErrInvalidCursor"
ErrInvalidOffset == "ErrInvalidOffset"
ErrInvalidRange == "ErrInvalidRange"

----------------------------------------------------------------------------
(* Machine integers *)

Pow2(n) == 2 ^ n
MaxInt64 == Pow2(Int64Bits - 1) - 1
MinInt64 == 0 - Pow2(Int64Bits - 1)
Int64 == MinInt64 .. MaxInt64

\* the value an int64 register holds after an arithmetic result x
WrapInt64(x) == ((x - MinInt64) % Pow2(Int64Bits)) + MinInt64

Add64(a, b) == WrapInt64(a + b)
Sub64(a, b) == WrapInt64(a - b)

\* Go's integer division truncates toward zero
Div64(a, b) ==
    IF (a >= 0) = (b > 0)
    THEN WrapInt64((IF a >= 0 THEN a ELSE 0 - a) \div (IF b > 0 THEN b ELSE 0 - b))
    ELSE WrapInt64(0 - ((IF a >= 0 THEN a ELSE 0 - a) \div (IF b > 0 THEN b ELSE 0 - b)))

\* int(x) for an int64 x, and int64(x) for an int x: the same width here
ToInt(x) == WrapInt64(x)

----------------------------------------------------------------------------
(* Pointers *)

Nil == <<>>
Ref(v) == <<v>>
Deref(p) == p[1]

----------------------------------------------------------------------------
(* Text *)

Digits == <<"0", "1", "2", "3", "4", "5", "6", "7", "8", "9">>
DigitChars == {Digits[i] : i \in 1..10}
LetterChars ==
    {"a", "b", "c", "d", "e", "f", "g", "h", "i", "j", "k", "l", "m",
     "n", "o", "p", "q", "r", "s", "t", "u", "v", "w", "x", "y", "z",
     "A", "B", "C", "D", "E", "F", "G", "H", "I", "J", "K", "L", "M",
     "N", "O", "P", "Q", "R", "S", "T", "U", "V", "W", "X", "Y", "Z"}
\* the classes \d and \w of Go's regexp: ASCII only
WordChars == LetterChars \cup DigitChars \cup {"_"}

DigitVal(c) == (CHOOSE i \in 1..10 : Digits[i] = c) - 1

\* the length of the longest prefix of s made of characters of cls
PrefixLen(s, cls) ==
    IF \A i \in 1..Len(s) : s[i] \in cls THEN Len(s)
    ELSE (CHOOSE i \in 1..Len(s) :
            s[i] \notin cls /\ \A j \in 1..(i - 1) : s[j] \in cls) - 1

\* s[a..b], cut to the positions s has
Slice(s, a, b) ==
    LET lo == IF a < 1 THEN 1 ELSE a
        hi == IF b > Len(s) THEN Len(s) ELSE b
    IN  IF lo > hi THEN <<>> ELSE [i \in 1..(hi - lo + 1) |-> s[lo + i - 1]]

Drop(s, n) == Slice(s, n + 1, Len(s))
Take(s, n) == Slice(s, 1, n)

RECURSIVE FormatUint(_)
\* the decimal digits of n >= 0 (%d)
FormatUint(n) ==
    IF n < 10 THEN <<Digits[n + 1]>>
    ELSE FormatUint(n \div 10) \o <<Digits[(n % 10) + 1]>>

RECURSIVE Number(_)
\* the number a digit string denotes
Number(s) ==
    IF s = <<>> THEN 0
    ELSE Number(Slice(s, 1, Len(s) - 1)) * 10 + DigitVal(s[Len(s)])

RECURSIVE ParseDigits(_, _)
\* the value of a digit string, accumulated from acc; a value above
\* MaxInt64 + 1 is kept as MaxInt64 + 2 (strconv's cutoff: out of range)
ParseDigits(s, acc) ==
    IF s = <<>> THEN acc
    ELSE LET n == acc * 10 + DigitVal(Head(s))
         IN ParseDigits(Tail(s), IF n > MaxInt64 + 1 THEN MaxInt64 + 2 ELSE n)

\* strconv.ParseInt(s, 10, 64): an optional sign, then one or more digits;
\* err is "syntax", "range" or NoError
ParseInt(s) ==
    LET neg    == s # <<>> /\ Head(s) = "-"
        signed == s # <<>> /\ Head(s) \in {"+", "-"}
        body   == IF signed THEN Tail(s) ELSE s
        u      == ParseDigits(body, 0)
    IN  IF body = <<>> \/ PrefixLen(body, DigitChars) # Len(body)
        THEN [val |-> 0, err |-> "syntax"]
        ELSE IF neg /\ u > MaxInt64 + 1 THEN [val |-> MinInt64, err |-> "range"]
        ELSE IF neg THEN [val |-> WrapInt64(0 - u), err |-> NoError]
        ELSE IF u > MaxInt64 THEN [val |-> MaxInt64, err |-> "range"]
        ELSE [val |-> u, err |-> NoError]

----------------------------------------------------------------------------
(* Bytes and base64 (encoding/base64, URLEncoding: padded, not strict) *)

\* the printable ASCII characters, from code 32 to code 126 (the grave accent,
\* code 96, cannot be written in a string here and stands as its number)
Printable ==
    <<" ", "!", "\"", "#", "$", "%", "&", "'", "(", ")", "*", "+", ",", "-", ".", "/",
      "0", "1", "2", "3", "4", "5", "6", "7", "8", "9", ":", ";", "<", "=", ">", "?",
      "@", "A", "B", "C", "D", "E", "F", "G", "H", "I", "J", "K", "L", "M", "N", "O",
      "P", "Q", "R", "S", "T", "U", "V", "W", "X", "Y", "Z", "[", "\\", "]", "^", "_",
      "\\x96", "a", "b", "c", "d", "e", "f", "g", "h", "i", "j", "k", "l", "m", "n", "o",
      "p", "q", "r", "s", "t", "u", "v", "w", "x", "y", "z", "{", "|", "}", "~">>

\* the byte value of a character
Code(c) ==
    IF c = "\n" THEN 10
    ELSE IF c = "\r" THEN 13
    ELSE IF c = "\t" THEN 9
    ELSE 31 + (CHOOSE i \in 1..Len(Printable) : Printable[i] = c)

\* the character of a byte value; a byte outside the table keeps its number
Chr(b) ==
    IF b \in 32..126 THEN Printable[b - 31]
    ELSE IF b = 10 THEN "\n"
    ELSE IF b = 13 THEN "\r"
    ELSE IF b = 9 THEN "\t"
    ELSE "\\x" \o ToString(b)

encodeURL ==
    <<"A", "B", "C", "D", "E", "F", "G", "H", "I", "J", "K", "L", "M", "N", "O", "P",
      "Q", "R", "S", "T", "U", "V", "W", "X", "Y", "Z", "a", "b", "c", "d", "e", "f",
      "g", "h", "i", "j", "k", "l", "m", "n", "o", "p", "q", "r", "s", "t", "u", "v",
      "w", "x", "y", "z", "0", "1", "2", "3", "4", "5", "6", "7", "8", "9", "-", "_">>
URLChars == {encodeURL[i] : i \in 1..64}
PadChar == "="

Sextet(c) == (CHOOSE i \in 1..64 : encodeURL[i] = c) - 1

\* base64.URLEncoding.EncodeToString: three bytes make four characters, and a
\* last group of one or two bytes is padded with "="
EncodeToString(src) ==
    LET n       == Len(src)
        Byte(i) == IF i <= n THEN Code(src[i]) ELSE 0
        Group(g) == Byte(3 * g + 1) * 65536 + Byte(3 * g + 2) * 256 + Byte(3 * g + 3)
        Char(k) ==
            LET g   == (k - 1) \div 4
                pos == (k - 1) % 4
            IN  IF 3 * g + pos > n THEN PadChar
                ELSE encodeURL[((Group(g) \div (64 ^ (3 - pos))) % 64) + 1]
    IN  [k \in 1..(4 * ((n + 2) \div 3)) |-> Char(k)]

NotNewline(c) == c \notin {"\r", "\n"}

\* base64.URLEncoding.DecodeString: [ok, out]; not ok is a CorruptInputError.
\* "\r" and "\n" are skipped wherever they stand; what is left is read four
\* characters at a time, and only the last four may end in one or two "=".
DecodeString(s) ==
    LET t        == SelectSeq(s, NotNewline)
        q        == Len(t) \div 4
        Quad(g)  == Slice(t, 4 * g + 1, 4 * g + 4)
        Data(g)  == PrefixLen(Quad(g), URLChars)
        Whole(g) == Data(g) = 4
        Padded(g) ==
            \/ Data(g) = 3 /\ Quad(g)[4] = PadChar
            \/ Data(g) = 2 /\ Quad(g)[3] = PadChar /\ Quad(g)[4] = PadChar
        Six(g, k) == IF k <= Data(g) THEN Sextet(Quad(g)[k]) ELSE 0
        Group(g) == Six(g, 1) * 262144 + Six(g, 2) * 4096 + Six(g, 3) * 64 + Six(g, 4)
        Byte(i)  ==
            LET g == (i - 1) \div 3
                pos == (i - 1) % 3
            IN  Chr((Group(g) \div (256 ^ (2 - pos))) % 256)
        n        == IF q = 0 THEN 0 ELSE 3 * (q - 1) + Data(q - 1) - 1
    IN  IF /\ Len(t) % 4 = 0
           /\ \A g \in 0..(q - 2) : Whole(g)
           /\ q > 0 => (Whole(q - 1) \/ Padded(q - 1))
        THEN [ok |-> TRUE, out |-> [i \in 1..n |-> Byte(i)]]
        ELSE [ok |-> FALSE, out |-> <<>>]

----------------------------------------------------------------------------
(* Go values of the cursor payload *)

\* The type parameter T of CursorData[T] is one of ValueTypes.  A value of
\* the field Value is [k, s, n, f]: k is its dynamic type ("nil" is the nil
\* interface, possible under T = any only), s the text of a string, n an int,
\* the integer part of a float64 or 0/1 for a bool, f the fraction digits of a
\* float64 (n = 42, f = <<"5">> is 42.5).
ValueTypes == {"any", "string", "int", "bool", "float64"}

GoValue(k, s, n, f) == [k |-> k, s |-> s, n |-> n, f |-> f]
NilValue == GoValue("nil", <<>>, 0, <<>>)
StringValue(s) == GoValue("string", s, 0, <<>>)
IntValue(n) == GoValue("int", <<>>, n, <<>>)
BoolValue(b) == GoValue("bool", <<>>, IF b THEN 1 ELSE 0, <<>>)
FloatValue(n, f) == GoValue("float64", <<>>, n, f)

\* the zero value of T
ZeroValue(T) ==
    CASE T = "any" -> NilValue
      [] T = "string" -> StringValue(<<>>)
      [] T = "int" -> IntValue(0)
      [] T = "bool" -> BoolValue(FALSE)
      [] T = "float64" -> FloatValue(0, <<>>)

\* a time.Time: the civil date and clock it shows, the fraction of the second
\* (digits, no trailing zero), the zone offset in minutes east of UTC, and
\* whether it carries a monotonic clock reading (as time.Now() does)
GoTime(Y, M, D, h, mi, sec, frac, off, mono) ==
    [Y |-> Y, M |-> M, D |-> D, h |-> h, mi |-> mi, sec |-> sec,
     frac |-> frac, off |-> off, mono |-> mono]
ZeroTime == GoTime(1, 1, 1, 0, 0, 0, <<>>, 0, FALSE)

\* (t Time) IsZero: January 1, year 1, 00:00:00 UTC
IsZero(t) ==
    /\ t.Y = 1 /\ t.M = 1 /\ t.D = 1
    /\ t.h * 60 + t.mi - t.off = 0
    /\ t.sec = 0 /\ t.frac = <<>>

\* (t Time) Equal: the same instant, whatever the zone and the monotonic
\* reading (the offsets of the model never move a time to another day)
TimeEqual(t, u) ==
    /\ t.Y = u.Y /\ t.M = u.M /\ t.D = u.D
    /\ t.h * 60 + t.mi - t.off = u.h * 60 + u.mi - u.off
    /\ t.sec = u.sec /\ t.frac = u.frac

\* CursorData[T]
CursorData(id, value, ts, offset) ==
    [ID |-> id, Value |-> value, Timestamp |-> ts, Offset |-> offset]

ZeroCursorData(T) == CursorData(<<>>, ZeroValue(T), ZeroTime, 0)

----------------------------------------------------------------------------
(* encoding/json: Marshal of a CursorData[T] *)

FormatInt(n) == IF n < 0 THEN <<"-">> \o FormatUint(0 - n) ELSE FormatUint(n)

RECURSIVE Pad(_, _)
\* s with zeros in front up to width w
Pad(s, w) == IF Len(s) >= w THEN s ELSE Pad(<<"0">> \o s, w)

HexDigits == <<"0", "1", "2", "3", "4", "5", "6", "7", "8", "9", "a", "b", "c", "d", "e", "f">>

\* how the encoder writes one character of a string: quote and backslash get
\* a backslash, the control characters of the model their short form, and
\* <, > and & their \u00XX form (HTML escaping is on by default)
EscapeChar(c) ==
    IF c = "\"" THEN <<"\\", "\"">>
    ELSE IF c = "\\" THEN <<"\\", "\\">>
    ELSE IF c = "\n" THEN <<"\\", "n">>
    ELSE IF c = "\r" THEN <<"\\", "r">>
    ELSE IF c = "\t" THEN <<"\\", "t">>
    ELSE IF c \in {"<", ">", "&"}
    THEN <<"\\", "u", "0", "0", HexDigits[(Code(c) \div 16) + 1], HexDigits[(Code(c) % 16) + 1]>>
    ELSE <<c>>

RECURSIVE EscapeString(_)
EscapeString(s) ==
    IF s = <<>> THEN <<>> ELSE EscapeChar(Head(s)) \o EscapeString(Tail(s))

Quote(s) == <<"\"">> \o s \o <<"\"">>

\* the JSON text of a value, by its dynamic type
MarshalValue(v) ==
    CASE v.k = "nil" -> <<"n", "u", "l", "l">>
      [] v.k = "string" -> Quote(EscapeString(v.s))
      [] v.k = "int" -> FormatInt(v.n)
      [] v.k = "bool" -> IF v.n = 1 THEN <<"t", "r", "u", "e">> ELSE <<"f", "a", "l", "s", "e">>
      [] v.k = "float64" ->
            FormatInt(v.n) \o (IF v.f = <<>> THEN <<>> ELSE <<".">> \o v.f)

\* omitempty on Value: a nil interface under T = any, the zero value otherwise
IsEmptyValue(T, v) == IF T = "any" THEN v.k = "nil" ELSE v = ZeroValue(T)

\* the zone of an RFC 3339 time: Z, or +hh:mm / -hh:mm
FormatZone(off) ==
    IF off = 0 THEN <<"Z">>
    ELSE LET a == IF off < 0 THEN 0 - off ELSE off
         IN  <<IF off < 0 THEN "-" ELSE "+">>
             \o Pad(FormatUint(a \div 60), 2) \o <<":">> \o Pad(FormatUint(a % 60), 2)

\* (t Time) MarshalJSON: RFC 3339 with nanoseconds, quoted; a year outside
\* [0, 9999] is an error
TimeMarshalJSON(t) ==
    IF t.Y < 0 \/ t.Y >= 10000 THEN [ok |-> FALSE, out |-> <<>>]
    ELSE [ok |-> TRUE,
          out |-> Quote(
              Pad(FormatUint(t.Y), 4) \o <<"-">> \o Pad(FormatUint(t.M), 2) \o <<"-">>
              \o Pad(FormatUint(t.D), 2) \o <<"T">> \o Pad(FormatUint(t.h), 2) \o <<":">>
              \o Pad(FormatUint(t.mi), 2) \o <<":">> \o Pad(FormatUint(t.sec), 2)
              \o (IF t.frac = <<>> THEN <<>> ELSE <<".">> \o t.frac)
              \o FormatZone(t.off))]

RECURSIVE JoinFields(_)
JoinFields(fs) ==
    IF fs = <<>> THEN <<>>
    ELSE IF Len(fs) = 1 THEN fs[1]
    ELSE fs[1] \o <<",">> \o JoinFields(Tail(fs))

\* json.Marshal(data) for data *CursorData[T]: the fields in the order of the
\* struct, "id", "v" and "o" under omitempty, "ts" under omitzero
Marshal(T, data) ==
    LET ts  == TimeMarshalJSON(data.Timestamp)
        id  == IF data.ID = <<>> THEN <<>>
               ELSE << <<"\"", "i", "d", "\"", ":">> \o Quote(EscapeString(data.ID)) >>
        v   == IF IsEmptyValue(T, data.Value) THEN <<>>
               ELSE << <<"\"", "v", "\"", ":">> \o MarshalValue(data.Value) >>
        tsf == IF IsZero(data.Timestamp) THEN <<>>
               ELSE << <<"\"", "t", "s", "\"", ":">> \o ts.out >>
        o   == IF data.Offset = 0 THEN <<>>
               ELSE << <<"\"", "o", "\"", ":">> \o FormatInt(data.Offset) >>
    IN  IF ~IsZero(data.Timestamp) /\ ~ts.ok THEN [ok |-> FALSE, out |-> <<>>]
        ELSE [ok |-> TRUE, out |-> <<"{">> \o JoinFields(id \o v \o tsf \o o) \o <<"}">>]

ErrMarshal == "json: marshal error"

\* what EncodeCursor returns once json.Marshal has returned b
EncodeBytes(b) ==
    IF ~b.ok THEN [token |-> <<>>, err |-> ErrMarshal]
    ELSE [token |-> EncodeToString(b.out), err |-> NoError]

\* EncodeCursor as it would be if a payload of zero fields were taken for no
\* payload
EncodeCursorZeroAsAbsent(T, data) ==
    IF data = Nil \/ data = Ref(ZeroCursorData(T)) THEN [token |-> <<>>, err |-> NoError]
    ELSE EncodeBytes(Marshal(T, Deref(data)))

\* EncodeCursor[T](data): the pair (token, err); data is Nil or Ref(payload)
EncodeCursor(T, data) ==
    IF data = Nil THEN [token |-> <<>>, err |-> NoError]
    ELSE EncodeBytes(Marshal(T, Deref(data)))

----------------------------------------------------------------------------
(* encoding/json: Unmarshal into a CursorData[T]                            *)
(*                                                                         *)
(* The scanner reads the JSON of the cursor wire format: an object (or any *)
(* scalar) whose values are strings, numbers without exponent, true, false *)
(* and null.  Arrays and objects as member values are outside the model    *)
(* and no input of the model holds them.                                   *)

WhiteSpace == {" ", "\t", "\n", "\r"}
ControlChars == {Chr(b) : b \in 0..31}
UpperLetters ==
    <<"A", "B", "C", "D", "E", "F", "G", "H", "I", "J", "K", "L", "M",
      "N", "O", "P", "Q", "R", "S", "T", "U", "V", "W", "X", "Y", "Z">>
LowerLetters ==
    <<"a", "b", "c", "d", "e", "f", "g", "h", "i", "j", "k", "l", "m",
      "n", "o", "p", "q", "r", "s", "t", "u", "v", "w", "x", "y", "z">>

ToLower(c) ==
    IF \E i \in 1..26 : UpperLetters[i] = c
    THEN LowerLetters[CHOOSE i \in 1..26 : UpperLetters[i] = c]
    ELSE c

Fold(s) == [i \in 1..Len(s) |-> ToLower(s[i])]

HexChars == {HexDigits[i] : i \in 1..16} \cup {UpperLetters[i] : i \in 1..6}
HexVal(c) == (CHOOSE i \in 1..16 : HexDigits[i] = ToLower(c)) - 1

\* the first position at or after i that holds no white space
SkipWS(b, i) == i + PrefixLen(Drop(b, i - 1), WhiteSpace)

At(b, i) == IF i >= 1 /\ i <= Len(b) THEN b[i] ELSE "EOF"

ScanFail == [ok |-> FALSE, next |-> 0, raw |-> <<>>, s |-> <<>>]

RECURSIVE ScanStringBody(_, _, _, _)
\* the string whose opening quote stands at position from - 1, read from
\* position j on: [ok, next, raw, s], raw the text between the quotes and s
\* the characters it denotes
ScanStringBody(b, from, j, acc) ==
    LET c == At(b, j) IN
    IF c = "EOF" \/ c \in ControlChars THEN ScanFail
    ELSE IF c = "\"" THEN [ok |-> TRUE, next |-> j + 1, raw |-> Slice(b, from, j - 1), s |-> acc]
    ELSE IF c # "\\" THEN ScanStringBody(b, from, j + 1, acc \o <<c>>)
    ELSE LET e == At(b, j + 1) IN
         IF e \in {"\"", "\\", "/"} THEN ScanStringBody(b, from, j + 2, acc \o <<e>>)
         ELSE IF e = "n" THEN ScanStringBody(b, from, j + 2, acc \o <<"\n">>)
         ELSE IF e = "r" THEN ScanStringBody(b, from, j + 2, acc \o <<"\r">>)
         ELSE IF e = "t" THEN ScanStringBody(b, from, j + 2, acc \o <<"\t">>)
         ELSE IF e = "b" THEN ScanStringBody(b, from, j + 2, acc \o <<Chr(8)>>)
         ELSE IF e = "f" THEN ScanStringBody(b, from, j + 2, acc \o <<Chr(12)>>)
         ELSE IF e = "u" /\ \A k \in 2..5 : At(b, j + k) \in HexChars
              THEN LET code == HexVal(b[j + 2]) * 4096 + HexVal(b[j + 3]) * 256
                               + HexVal(b[j + 4]) * 16 + HexVal(b[j + 5])
                   IN  ScanStringBody(b, from, j + 6,
                            acc \o <<IF code < 256 THEN Chr(code) ELSE "\\u" \o ToString(code)>>)
         ELSE ScanFail

\* a number at position i: -? (0 | [1-9][0-9]*) (. [0-9]+)?
ScanNumber(b, i) ==
    LET j     == IF At(b, i) = "-" THEN i + 1 ELSE i
        ni    == PrefixLen(Drop(b, j - 1), DigitChars)
        k     == j + ni
        nf    == IF At(b, k) = "." THEN PrefixLen(Drop(b, k), DigitChars) ELSE 0
        next  == IF At(b, k) = "." THEN k + 1 + nf ELSE k
    IN  IF ni = 0 \/ (ni > 1 /\ b[j] = "0") \/ (At(b, k) = "." /\ nf = 0) THEN ScanFail
        ELSE [ok |-> TRUE, next |-> next, raw |-> Slice(b, i, next - 1), s |-> <<>>]

Literal(b, i, word) ==
    IF Slice(b, i, i + Len(word) - 1) = word /\ i + Len(word) - 1 <= Len(b)
    THEN [ok |-> TRUE, next |-> i + Len(word), raw |-> word, s |-> <<>>]
    ELSE ScanFail

\* the JSON type of the scalar that starts with the character c
ValueType(c) ==
    IF c = "\"" THEN "str"
    ELSE IF c = "t" \/ c = "f" THEN "bool"
    ELSE IF c = "n" THEN "null"
    ELSE "num"

\* the scalar at position i, c being the character there: [ok, next, raw, s]
ScanScalar(b, i, c) ==
    IF c = "\"" THEN ScanStringBody(b, i + 1, i + 1, <<>>)
    ELSE IF c = "-" \/ c \in DigitChars THEN ScanNumber(b, i)
    ELSE IF c = "t" THEN Literal(b, i, <<"t", "r", "u", "e">>)
    ELSE IF c = "f" THEN Literal(b, i, <<"f", "a", "l", "s", "e">>)
    ELSE IF c = "n" THEN Literal(b, i, <<"n", "u", "l", "l">>)
    ELSE ScanFail

Typed(t, r) == [ok |-> r.ok, next |-> r.next, t |-> t, raw |-> r.raw, s |-> r.s]

\* a scalar value at position i: [ok, next, t, raw, s]
ScanValue(b, i) == Typed(ValueType(At(b, i)), ScanScalar(b, i, At(b, i)))

NoMembers == [ok |-> FALSE, next |-> 0, members |-> <<>>]

RECURSIVE ScanMembers(_, _, _)

\* after a member: sep is the position of what follows its value
NextMember(b, more, sep) ==
    IF At(b, sep) = "}" THEN [ok |-> TRUE, next |-> sep + 1, members |-> more]
    ELSE IF At(b, sep) = "," THEN ScanMembers(b, SkipWS(b, sep + 1), more)
    ELSE NoMembers

\* the value of a member has been scanned
MemberValue(b, acc, key, val) ==
    IF ~val.ok THEN NoMembers
    ELSE NextMember(b, acc \o <<[key |-> key.s, val |-> val]>>, SkipWS(b, val.next))

\* colon is the position of what follows the key
MemberColon(b, acc, key, colon) ==
    IF At(b, colon) # ":" THEN NoMembers
    ELSE MemberValue(b, acc, key, ScanValue(b, SkipWS(b, colon + 1)))

\* the key of a member has been scanned
MemberKey(b, acc, key) ==
    IF ~key.ok THEN NoMembers
    ELSE MemberColon(b, acc, key, SkipWS(b, key.next))

\* the members of an object from position i (a key must stand there) up to
\* the closing brace: [ok, next, members], a member being [key, val]
ScanMembers(b, i, acc) ==
    IF At(b, i) # "\"" THEN NoMembers
    ELSE MemberKey(b, acc, ScanStringBody(b, i + 1, i + 1, <<>>))

\* the object whose first key or closing brace stands at position first
ScanObject(b, first) ==
    IF At(b, first) = "}" THEN [ok |-> TRUE, next |-> first + 1, members |-> <<>>]
    ELSE ScanMembers(b, first, <<>>)

NoDocument == [ok |-> FALSE, t |-> "none", members |-> <<>>]

\* nothing but white space may follow the value of the document
ObjectEnd(b, obj) ==
    IF obj.ok /\ SkipWS(b, obj.next) = Len(b) + 1
    THEN [ok |-> TRUE, t |-> "object", members |-> obj.members]
    ELSE NoDocument

ScalarEnd(b, val) ==
    IF val.ok /\ SkipWS(b, val.next) = Len(b) + 1
    THEN [ok |-> TRUE, t |-> val.t, members |-> <<>>]
    ELSE NoDocument

ScanDocumentAt(b, i) ==
    IF At(b, i) = "{" THEN ObjectEnd(b, ScanObject(b, SkipWS(b, i + 1)))
    ELSE ScalarEnd(b, ScanValue(b, i))

\* the whole text as one JSON value: [ok, t, members]; t is "object" or the
\* type of a scalar; not ok is a SyntaxError
ScanDocument(b) == ScanDocumentAt(b, SkipWS(b, 1))

\* a JSON number as an int: strconv.ParseInt of its text
NumberToInt(raw) == ParseInt(raw)

RECURSIVE StripZeros(_)
StripZeros(f) ==
    IF f # <<>> /\ f[Len(f)] = "0" THEN StripZeros(Take(f, Len(f) - 1)) ELSE f

\* a JSON number as a float64
NumberToFloat(raw) ==
    LET neg  == Head(raw) = "-"
        body == IF neg THEN Tail(raw) ELSE raw
        ni   == PrefixLen(body, DigitChars)
        n    == Number(Take(body, ni))
    IN  FloatValue(IF neg THEN 0 - n ELSE n, StripZeros(Drop(body, ni + 1)))

DaysIn(M, Y) ==
    IF M \in {4, 6, 9, 11} THEN 30
    ELSE IF M # 2 THEN 31
    ELSE IF Y % 4 = 0 /\ (Y % 100 # 0 \/ Y % 400 = 0) THEN 29
    ELSE 28

AllDigits(s) == s # <<>> /\ PrefixLen(s, DigitChars) = Len(s)

\* the zone at the end of an RFC 3339 time: [ok, off]
ParseZone(z) ==
    IF z = <<"Z">> THEN [ok |-> TRUE, off |-> 0]
    ELSE IF /\ Len(z) = 6 /\ z[1] \in {"+", "-"} /\ z[4] = ":"
            /\ AllDigits(Slice(z, 2, 3)) /\ AllDigits(Slice(z, 5, 6))
            /\ Number(Slice(z, 2, 3)) < 24 /\ Number(Slice(z, 5, 6)) < 60
    THEN LET a == Number(Slice(z, 2, 3)) * 60 + Number(Slice(z, 5, 6))
         IN  [ok |-> TRUE, off |-> IF z[1] = "-" THEN 0 - a ELSE a]
    ELSE [ok |-> FALSE, off |-> 0]

\* (t *Time) UnmarshalJSON for a JSON string whose text between the quotes is
\* s: strict RFC 3339, yyyy-mm-ddThh:mm:ss, an optional fraction, a zone
TimeUnmarshalJSON(s) ==
    LET nf   == IF At(s, 20) = "." THEN PrefixLen(Drop(s, 20), DigitChars) ELSE 0
        zone == ParseZone(IF At(s, 20) = "." THEN Drop(s, 20 + nf) ELSE Drop(s, 19))
        Y    == Number(Slice(s, 1, 4))
        M    == Number(Slice(s, 6, 7))
        D    == Number(Slice(s, 9, 10))
        h    == Number(Slice(s, 12, 13))
        mi   == Number(Slice(s, 15, 16))
        sec  == Number(Slice(s, 18, 19))
    IN  IF /\ Len(s) >= 20
           /\ AllDigits(Slice(s, 1, 4)) /\ s[5] = "-"
           /\ AllDigits(Slice(s, 6, 7)) /\ s[8] = "-"
           /\ AllDigits(Slice(s, 9, 10)) /\ s[11] = "T"
           /\ AllDigits(Slice(s, 12, 13)) /\ s[14] = ":"
           /\ AllDigits(Slice(s, 15, 16)) /\ s[17] = ":"
           /\ AllDigits(Slice(s, 18, 19))
           /\ (s[20] = "." => nf >= 1)
           /\ zone.ok
           /\ M \in 1..12 /\ D \in 1..DaysIn(M, Y)
           /\ h < 24 /\ mi < 60 /\ sec < 60
        THEN [ok |-> TRUE,
              t |-> GoTime(Y, M, D, h, mi, sec,
                           StripZeros(Take(Slice(s, 21, 20 + nf), 9)), zone.off, FALSE)]
        ELSE [ok |-> FALSE, t |-> ZeroTime]

\* StoreValue as it would be if the field Value were declared interface{}
\* whatever T is: every JSON number becomes a float64
StoreValueUntyped(T, old, val) ==
    CASE val.t = "null" -> [ok |-> TRUE, v |-> IF T = "any" THEN NilValue ELSE old]
      [] val.t = "str" -> [ok |-> TRUE, v |-> StringValue(val.s)]
      [] val.t = "num" -> [ok |-> TRUE, v |-> NumberToFloat(val.raw)]
      [] val.t = "bool" -> [ok |-> TRUE, v |-> BoolValue(val.raw[1] = "t")]

\* a JSON value stored into a field of static type T: [ok, v]; null leaves
\* the field as it is (into an interface it stores nil), a value of another
\* JSON type is an UnmarshalTypeError
StoreValue(T, old, val) ==
    LET int == NumberToInt(val.raw)
        bad == [ok |-> FALSE, v |-> old]
    IN  CASE T = "any" ->
                 (CASE val.t = "null" -> [ok |-> TRUE, v |-> NilValue]
                    [] val.t = "str" -> [ok |-> TRUE, v |-> StringValue(val.s)]
                    [] val.t = "num" -> [ok |-> TRUE, v |-> NumberToFloat(val.raw)]
                    [] val.t = "bool" -> [ok |-> TRUE, v |-> BoolValue(val.raw[1] = "t")])
          [] T # "any" /\ val.t = "null" -> [ok |-> TRUE, v |-> old]
          [] T = "string" /\ val.t # "null" ->
                 IF val.t = "str" THEN [ok |-> TRUE, v |-> StringValue(val.s)] ELSE bad
          [] T = "int" /\ val.t # "null" ->
                 IF val.t = "num" /\ int.err = NoError
                 THEN [ok |-> TRUE, v |-> IntValue(int.val)] ELSE bad
          [] T = "bool" /\ val.t # "null" ->
                 IF val.t = "bool" THEN [ok |-> TRUE, v |-> BoolValue(val.raw[1] = "t")] ELSE bad
          [] T = "float64" /\ val.t # "null" ->
                 IF val.t = "num" THEN [ok |-> TRUE, v |-> NumberToFloat(val.raw)] ELSE bad

\* the fields of the struct, each set from what StoreValue made of the member
StoreID(st, sid) == [ok |-> st.ok /\ sid.ok, data |-> [st.data EXCEPT !.ID = sid.v.s]]

StoreV(st, sv) == [ok |-> st.ok /\ sv.ok, data |-> [st.data EXCEPT !.Value = sv.v]]

StoreOffset(st, so) == [ok |-> st.ok /\ so.ok, data |-> [st.data EXCEPT !.Offset = so.v.n]]

StoreTimestamp(st, val, ts) ==
    IF val.t = "null" THEN st
    ELSE IF val.t = "str" /\ ts.ok
    THEN [ok |-> st.ok, data |-> [st.data EXCEPT !.Timestamp = ts.t]]
    ELSE [ok |-> FALSE, data |-> st.data]

\* the member named name (in lower case) stored into the struct: a name is a
\* field's tag, and a member naming no field is skipped
StoreField(T, st, name, val) ==
    IF name = <<"i", "d">>
    THEN StoreID(st, StoreValue("string", StringValue(st.data.ID), val))
    ELSE IF name = <<"v">>
    THEN StoreV(st, StoreValue(T, st.data.Value, val))
    ELSE IF name = <<"o">>
    THEN StoreOffset(st, StoreValue("int", IntValue(st.data.Offset), val))
    ELSE IF name = <<"t", "s">>
    THEN StoreTimestamp(st, val, TimeUnmarshalJSON(val.raw))
    ELSE st

\* one member of the object stored into the struct: the key names a field by
\* its tag, letter case apart
StoreMember(T, st, m) == StoreField(T, st, Fold(m.key), m.val)

RECURSIVE StoreMembers(_, _, _)
StoreMembers(T, st, members) ==
    IF members = <<>> THEN st
    ELSE StoreMembers(T, StoreMember(T, st, Head(members)), Tail(members))

\* the scanned document stored into a zero CursorData[T]; null stores nothing
StoreDocument(T, doc) ==
    IF ~doc.ok THEN [ok |-> FALSE, data |-> ZeroCursorData(T)]
    ELSE IF doc.t = "null" THEN [ok |-> TRUE, data |-> ZeroCursorData(T)]
    ELSE IF doc.t # "object" THEN [ok |-> FALSE, data |-> ZeroCursorData(T)]
    ELSE StoreMembers(T, [ok |-> TRUE, data |-> ZeroCursorData(T)], doc.members)

\* json.Unmarshal(b, &data) for a zero data CursorData[T]: [ok, data]; not
\* ok is any error it returns
Unmarshal(T, b) == StoreDocument(T, ScanDocument(b))

\* DecodeData as it would be if the error of json.Unmarshal were dropped:
\* whatever Unmarshal left in data is returned
DecodeDataLenient(u) == [data |-> Ref(u.data), err |-> NoError]

\* what DecodeCursor returns once json.Unmarshal has returned u
DecodeData(u) ==
    IF ~u.ok THEN [data |-> Nil, err |-> ErrInvalidCursor]
    ELSE [data |-> Ref(u.data), err |-> NoError]

\* what DecodeCursor returns once base64 has returned b
DecodeBytes(T, b) ==
    IF ~b.ok THEN [data |-> Nil, err |-> ErrInvalidCursor]
    ELSE DecodeData(Unmarshal(T, b.out))

\* DecodeCursor as it would be without its test for the empty token
DecodeCursorNoEmptyCase(T, cursor) == DecodeBytes(T, DecodeString(cursor))

\* DecodeCursor[T](cursor): the pair (data, err)
DecodeCursor(T, cursor) ==
    IF cursor = <<>> THEN [data |-> Nil, err |-> NoError]
    ELSE DecodeBytes(T, DecodeString(cursor))

\* (c *CursorPaginator) Decode
PaginatorDecode(c) ==
    IF c.Cursor = <<>> THEN [data |-> Nil, err |-> NoError]
    ELSE DecodeCursor("any", c.Cursor)

\* NewCursor
NewCursor == [Cursor |-> <<>>, Limit |-> DefaultPageSize, Forward |-> TRUE]

\* (c *CursorPaginator) WithCursor
WithCursor(c, cursor) == [Cursor |-> cursor, Limit |-> c.Limit, Forward |-> c.Forward]

----------------------------------------------------------------------------
(* Offset paginator: the constructors Range.ToPaginator uses *)

New == [Page |-> DefaultPage, PageSize |-> DefaultPageSize]

Clone(p) == [Page |-> p.Page, PageSize |-> p.PageSize]

\* WithPage as it would be if it stored the page it is given
WithPageUnchecked(p, page) ==
    [Clone(p) EXCEPT !.Page = page]

WithPage(p, page) ==
    [Clone(p) EXCEPT !.Page = IF page < 1 THEN DefaultPage ELSE page]

WithPageSize(p, size) ==
    LET s1 == IF size < MinPageSize THEN DefaultPageSize ELSE size
        s2 == IF s1 > MaxPageSize THEN MaxPageSize ELSE s1
    IN  [Clone(p) EXCEPT !.PageSize = s2]

NewFromValues(page, pageSize) == WithPageSize(WithPage(New, page), pageSize)

\* int on the platform: a two's complement integer of bits bits
MaxInt(bits) == Pow2(bits - 1) - 1
MinInt(bits) == 0 - Pow2(bits - 1)
WrapInt(x, bits) == ((x - MinInt(bits)) % Pow2(bits)) + MinInt(bits)

\* a * b modulo 2^Int64Bits for 0 <= a < 2^Int64Bits and b >= 0, by doubling
RECURSIVE MulMod(_, _)
MulMod(a, b) ==
    IF b = 0 THEN 0
    ELSE (2 * MulMod(a, b \div 2) + (b % 2) * a) % Pow2(Int64Bits)

\* a * b in int64
Mul64(a, b) ==
    IF b >= 0 THEN WrapInt64(MulMod(a % Pow2(Int64Bits), b))
    ELSE WrapInt64(0 - MulMod(a % Pow2(Int64Bits), 0 - b))

\* an error value: the sentinel it is or wraps (%w), which errors.Is finds
GoError(target, wrapped) == [is |-> target, wrapped |-> wrapped]
NilError == GoError(NoError, FALSE)
Sentinel(target) == GoError(target, FALSE)
Errorf(target) == GoError(target, TRUE)
ErrorsIs(err, target) == err.is = target

\* (p *Paginator) Offset: int64(p.Page-1) * int64(p.PageSize)
Offset(p, bits) == Mul64(WrapInt(p.Page - 1, bits), p.PageSize)

\* Validate as it would be with the page size looked at first
ValidatePaginatorSizeFirst(p) ==
    IF p.PageSize < MinPageSize \/ p.PageSize > MaxPageSize THEN Errorf(ErrInvalidPageSize)
    ELSE IF p.Page < 1 THEN Errorf(ErrInvalidPage)
    ELSE NilError

\* (p *Paginator) Validate
ValidatePaginator(p) ==
    IF p.Page < 1 THEN Errorf(ErrInvalidPage)
    ELSE IF p.PageSize < MinPageSize \/ p.PageSize > MaxPageSize THEN Errorf(ErrInvalidPageSize)
    ELSE NilError

\* the end of TotalPages as it would be without the cap
CapToIntUncapped(pages, bits) ==
    WrapInt(pages, bits)

\* the end of TotalPages: pages is capped at the largest int, then converted
CapToInt(pages, bits) ==
    IF pages > MaxInt(bits) THEN MaxInt(bits) ELSE WrapInt(pages, bits)

\* (p *Paginator) TotalPages
TotalPages(p, total, bits) ==
    IF total <= 0 \/ p.PageSize <= 0 THEN 0
    ELSE CapToInt(IF total % p.PageSize > 0
                  THEN Add64(Div64(total, p.PageSize), 1)
                  ELSE Div64(total, p.PageSize), bits)

\* (p *Paginator) HasPrevious
HasPrevious(p) == p.Page > 1

\* (p *Paginator) PreviousPage
PreviousPage(p) == IF p.Page <= 1 THEN 1 ELSE p.Page - 1

\* (p *Paginator) NextPage
NextPage(p, bits) == WrapInt(p.Page + 1, bits)

\* (p *Paginator) HasNext
HasNext(p, total, bits) == p.Page < TotalPages(p, total, bits)

\* (p *Paginator) IsLastPage
IsLastPage(p, total, bits) ==
    TotalPages(p, total, bits) > 0 /\ p.Page >= TotalPages(p, total, bits)

\* (p *Paginator) IsEmpty
IsEmpty(p, total, bits) == Offset(p, bits) >= total

\* the largest page Clamp allows
ClampMaxPage(totalPages) == IF totalPages = 0 THEN 1 ELSE totalPages

\* Clamp as it would be if a page out of range went back to the first page
ClampToFirstPage(p, maxPage) ==
    IF p.Page > maxPage THEN [same |-> FALSE, p |-> WithPage(p, DefaultPage)]
    ELSE [same |-> TRUE, p |-> p]

\* Clamp, from the value of maxPage on: same says that the pointer returned
\* is the receiver itself
ClampTo(p, maxPage) ==
    IF p.Page > maxPage THEN [same |-> FALSE, p |-> WithPage(p, maxPage)]
    ELSE [same |-> TRUE, p |-> p]

\* (p *Paginator) Clamp
Clamp(p, total, bits) == ClampTo(p, ClampMaxPage(TotalPages(p, total, bits)))

\* (c *CursorPaginator) Clone
CloneCursor(c) == [Cursor |-> c.Cursor, Limit |-> c.Limit, Forward |-> c.Forward]

\* the limit as WithLimit would store it without the upper bound
ClampLimitUnbounded(limit) ==
    LET l1 == IF limit < MinPageSize THEN DefaultPageSize ELSE limit
    IN  l1

\* the limit WithLimit stores
ClampLimit(limit) ==
    LET l1 == IF limit < MinPageSize THEN DefaultPageSize ELSE limit
    IN  IF l1 > MaxPageSize THEN MaxPageSize ELSE l1

\* (c *CursorPaginator) WithLimit
WithLimit(c, limit) == [CloneCursor(c) EXCEPT !.Limit = ClampLimit(limit)]

\* (c *CursorPaginator) WithForward
WithForward(c, forward) == [CloneCursor(c) EXCEPT !.Forward = forward]

\* (c *CursorPaginator) Validate
ValidateCursor(c) ==
    IF c.Limit < MinPageSize \/ c.Limit > MaxPageSize THEN Sentinel(ErrInvalidPageSize)
    ELSE IF c.Cursor # <<>> THEN Sentinel(PaginatorDecode(c).err)
    ELSE NilError

----------------------------------------------------------------------------
(* Lenient parsing: FromQuery, FromMap, CursorFromQuery *)

\* strconv.Atoi(s) on a platform whose int has bits bits: ParseInt(s, 10, 0)
\* then the conversion to int; err is "syntax", "range" or NoError
Atoi(s, bits) ==
    LET neg    == s # <<>> /\ Head(s) = "-"
        signed == s # <<>> /\ Head(s) \in {"+", "-"}
        body   == IF signed THEN Tail(s) ELSE s
        u      == ParseDigits(body, 0)
    IN  IF body = <<>> \/ PrefixLen(body, DigitChars) # Len(body)
        THEN [val |-> 0, err |-> "syntax"]
        ELSE IF neg /\ u > MaxInt(bits) + 1 THEN [val |-> MinInt(bits), err |-> "range"]
        ELSE IF neg THEN [val |-> WrapInt(0 - u, bits), err |-> NoError]
        ELSE IF u > MaxInt(bits) THEN [val |-> MaxInt(bits), err |-> "range"]
        ELSE [val |-> u, err |-> NoError]

\* q.Get(key) of url.Values: the first value under key, "" when there is none
Get(q, key) == q[key]

\* if page, err := strconv.Atoi(pageStr); err == nil && page > 0 { p = p.WithPage(page) }
SetPageFrom(p, a) == IF a.err = NoError /\ a.val > 0 THEN WithPage(p, a.val) ELSE p

\* if pageStr := q.Get("page"); pageStr != "" { ... }
SetPage(p, pageStr, bits) ==
    IF pageStr # <<>> THEN SetPageFrom(p, Atoi(pageStr, bits)) ELSE p

\* if size, err := strconv.Atoi(sizeStr); err == nil && size > 0 { p = p.WithPageSize(size) }
SetPageSizeFrom(p, a) == IF a.err = NoError /\ a.val > 0 THEN WithPageSize(p, a.val) ELSE p

\* if sizeStr := q.Get(...); sizeStr != "" { ... }
SetPageSize(p, sizeStr, bits) ==
    IF sizeStr # <<>> THEN SetPageSizeFrom(p, Atoi(sizeStr, bits)) ELSE p

\* FromQuery as it would be with limit and per_page read whatever page_size holds
FromQueryAlternativesFirst(q, bits) ==
    LET p1 == SetPage(New, Get(q, "page"), bits)
        p2 == SetPageSize(p1, Get(q, "page_size"), bits)
        p3 == SetPageSize(p2, Get(q, "limit"), bits)
        p4 == SetPageSize(p3, Get(q, "per_page"), bits)
    IN  p4

\* FromQuery
FromQuery(q, bits) ==
    LET p1 == SetPage(New, Get(q, "page"), bits)
        p2 == SetPageSize(p1, Get(q, "page_size"), bits)
        p3 == IF Get(q, "page_size") = <<>> THEN SetPageSize(p2, Get(q, "limit"), bits) ELSE p2
        p4 == IF Get(q, "page_size") = <<>> THEN SetPageSize(p3, Get(q, "per_page"), bits) ELSE p3
    IN  p4

\* a value of a map[string]any: t is its dynamic type, n its number (for a
\* float the integer part, toward zero), s its text, and huge says that a
\* float is NaN, infinite or beyond the range of int
MapValue(t, n, s, huge) == [t |-> t, n |-> n, s |-> s, huge |-> huge]

\* what int(val) can give for a float outside the range of int: the language
\* leaves the value to the implementation
FloatToIntOutcomes(bits) == {MinInt(bits), -1, 0, 1, MaxInt(bits)}

\* extractInt of a string
ExtractString(a) == IF a.err = NoError THEN a.val ELSE 0

\* extractInt: the values it can return
extractInt(v, bits) ==
    CASE v.t = "int" -> {v.n}
      [] v.t = "int64" -> {WrapInt(v.n, bits)}
      [] v.t = "int32" -> {v.n}
      [] v.t \in {"float64", "float32"} ->
             IF v.huge THEN FloatToIntOutcomes(bits) ELSE {v.n}
      [] v.t = "string" -> {ExtractString(Atoi(v.s, bits))}
      [] OTHER -> {0}

\* FromMap, from the values extractInt returned: page and size are the two
\* ints, and a key that is missing is Nil
FromMapValues(page, size) ==
    LET p1 == IF page # Nil /\ Deref(page) > 0 THEN WithPage(New, Deref(page)) ELSE New
    IN  IF size # Nil /\ Deref(size) > 0 THEN WithPageSize(p1, Deref(size)) ELSE p1

\* m[key] with its ok: the values extractInt can return, or Nil
Extracted(m, key, bits) ==
    IF m[key].t = "missing" THEN {Nil} ELSE {Ref(n) : n \in extractInt(m[key], bits)}

\* FromMap: the paginators it can return
FromMap(m, bits) ==
    {FromMapValues(page, size) :
        page \in Extracted(m, "page", bits), size \in Extracted(m, "page_size", bits)}

\* if limit, err := strconv.Atoi(limitStr); err == nil && limit > 0 { c = c.WithLimit(limit) }
SetLimitFrom(c, a) == IF a.err = NoError /\ a.val > 0 THEN WithLimit(c, a.val) ELSE c

SetLimit(c, limitStr, bits) ==
    IF limitStr # <<>> THEN SetLimitFrom(c, Atoi(limitStr, bits)) ELSE c

\* c = c.WithLimit(first).WithForward(true), and the same for last with false
SetLimitForwardFrom(c, a, forward) ==
    IF a.err = NoError /\ a.val > 0 THEN WithForward(WithLimit(c, a.val), forward) ELSE c

SetLimitForward(c, str, forward, bits) ==
    IF str # <<>> THEN SetLimitForwardFrom(c, Atoi(str, bits), forward) ELSE c

\* CursorFromQuery as it would be if last were read before first
CursorFromQueryLastThenFirst(q, bits) ==
    LET c1 == IF Get(q, "cursor") # <<>> THEN WithCursor(NewCursor, Get(q, "cursor")) ELSE NewCursor
        c2 == IF Get(q, "after") # <<>> THEN WithForward(WithCursor(c1, Get(q, "after")), TRUE) ELSE c1
        c3 == IF Get(q, "before") # <<>> THEN WithForward(WithCursor(c2, Get(q, "before")), FALSE) ELSE c2
        c4 == SetLimit(c3, Get(q, "limit"), bits)
        c5 == SetLimitForward(c4, Get(q, "last"), FALSE, bits)
    IN  SetLimitForward(c5, Get(q, "first"), TRUE, bits)

\* CursorFromQuery
CursorFromQuery(q, bits) ==
    LET c1 == IF Get(q, "cursor") # <<>> THEN WithCursor(NewCursor, Get(q, "cursor")) ELSE NewCursor
        c2 == IF Get(q, "after") # <<>> THEN WithForward(WithCursor(c1, Get(q, "after")), TRUE) ELSE c1
        c3 == IF Get(q, "before") # <<>> THEN WithForward(WithCursor(c2, Get(q, "before")), FALSE) ELSE c2
        c4 == SetLimit(c3, Get(q, "limit"), bits)
        c5 == SetLimitForward(c4, Get(q, "first"), TRUE, bits)
    IN  SetLimitForward(c5, Get(q, "last"), FALSE, bits)

----------------------------------------------------------------------------
(* Response helpers: the Link header and the range response *)

\* strconv.Itoa
Itoa(n) == FormatInt(n)

\* (c *CursorPaginator) QueryParams: the values under the six keys
\* CursorFromQuery reads, "" where the key is not set
QueryParams(c) ==
    [cursor |-> <<>>,
     after  |-> IF c.Cursor # <<>> /\ c.Forward THEN c.Cursor ELSE <<>>,
     before |-> IF c.Cursor # <<>> /\ ~c.Forward THEN c.Cursor ELSE <<>>,
     limit  |-> Itoa(c.Limit),
     first  |-> <<>>,
     last   |-> <<>>]

\* (p *Paginator) QueryParams, encoded: url.Values.Encode writes the keys in
\* order, page before page_size; digits and the sign are not escaped
EncodedQueryParams(p) ==
    <<"p", "a", "g", "e", "=">> \o Itoa(p.Page) \o <<"&", "p", "a", "g", "e", "_", "s", "i", "z", "e", "=">> \o Itoa(p.PageSize)

\* buildURL on the parameters of a Paginator (two of them, never none)
buildURL(baseURL, p) == baseURL \o <<"?">> \o EncodedQueryParams(p)

LinkHeader(first, prev, next, last) ==
    [First |-> first, Prev |-> prev, Next |-> next, Last |-> last]

\* BuildLinkHeader as it would be with a previous link on every page
BuildLinkHeaderAlwaysPrev(baseURL, p, total, bits) ==
    IF TotalPages(p, total, bits) = 0 THEN LinkHeader(<<>>, <<>>, <<>>, <<>>)
    ELSE LinkHeader(
            buildURL(baseURL, WithPage(p, 1)),
            buildURL(baseURL, WithPage(p, PreviousPage(p))),
            IF HasNext(p, total, bits)
            THEN buildURL(baseURL, WithPage(p, NextPage(p, bits))) ELSE <<>>,
            buildURL(baseURL, WithPage(p, TotalPages(p, total, bits))))

\* BuildLinkHeader
BuildLinkHeader(baseURL, p, total, bits) ==
    IF TotalPages(p, total, bits) = 0 THEN LinkHeader(<<>>, <<>>, <<>>, <<>>)
    ELSE LinkHeader(
            buildURL(baseURL, WithPage(p, 1)),
            IF HasPrevious(p)
            THEN buildURL(baseURL, WithPage(p, PreviousPage(p))) ELSE <<>>,
            IF HasNext(p, total, bits)
            THEN buildURL(baseURL, WithPage(p, NextPage(p, bits))) ELSE <<>>,
            buildURL(baseURL, WithPage(p, TotalPages(p, total, bits))))

\* fmt.Sprintf of <%s>; rel="..."
Link(url, rel) == <<"<">> \o url \o <<">", ";", " ", "r", "e", "l", "=", "\"">> \o rel \o <<"\"">>

\* links = append(links, ...) when the field is not empty
AppendLink(links, url, rel) == IF url # <<>> THEN Append(links, Link(url, rel)) ELSE links

RECURSIVE JoinLinks(_, _, _)
\* the loop of String: result += ", " before every link but the first
JoinLinks(links, i, result) ==
    IF i > Len(links) THEN result
    ELSE JoinLinks(links, i + 1,
                   (IF i > 1 THEN result \o <<",", " ">> ELSE result) \o links[i])

\* (h *LinkHeader) String
String(h) ==
    JoinLinks(AppendLink(AppendLink(AppendLink(AppendLink(<<>>,
                  h.First, <<"f", "i", "r", "s", "t">>),
                  h.Prev, <<"p", "r", "e", "v">>),
                  h.Next, <<"n", "e", "x", "t">>),
                  h.Last, <<"l", "a", "s", "t">>), 1, <<>>)

\* SetHeader, given the string: the calls made to the callback
SetHeaderWith(linkStr) ==
    IF linkStr # <<>> THEN <<[key |-> <<"L", "i", "n", "k">>, value |-> linkStr]>> ELSE <<>>

\* (h *LinkHeader) SetHeader
SetHeader(h) == SetHeaderWith(String(h))

\* (r *Range) ContentRangeHeader
ContentRangeHeader(r, total) ==
    IF total < 0
    THEN r.Unit \o <<" ">> \o FormatInt(r.Start) \o <<"-">> \o FormatInt(r.End) \o <<"/", "*">>
    ELSE r.Unit \o <<" ">> \o FormatInt(r.Start) \o <<"-">> \o FormatInt(r.End)
            \o <<"/">> \o FormatInt(total)

\* NewRangeResponse: the items are known by their number, Len
NewRangeResponse(len, r, total) ==
    [Len   |-> len,
     Start |-> r.Start,
     End   |-> IF len > 0 THEN Sub64(Add64(r.Start, len), 1) ELSE r.Start,
     Total |-> total,
     Unit  |-> r.Unit]

\* (r *RangeResponse[T]) ContentRange
ContentRange(r) ==
    IF r.Len = 0
    THEN r.Unit \o <<" ", "*", "/">> \o FormatInt(r.Total)
    ELSE r.Unit \o <<" ">> \o FormatInt(r.Start) \o <<"-">> \o FormatInt(r.End)
            \o <<"/">> \o FormatInt(r.Total)


----------------------------------------------------------------------------
(* The example server: handleCursorPagination over a list of users, known  *)
(* here by their ids.  The handler is written against an earlier form of    *)
(* the API: it calls c.DecodeCursor() and takes one result from             *)
(* NewCursorFromID.  It is read with c.Decode() and with the token of       *)
(* NewCursorFromID, which is what the calls mean.                           *)

\* NewCursorFromID: the pair (token, err)
NewCursorFromID(id) == EncodeCursor("any", Ref(CursorData(id, NilValue, ZeroTime, 0)))

\* (c *CursorPaginator) HasCursor
HasCursor(c) == c.Cursor # <<>>

\* the position, from 1, of the first user with this id; 0 when there is none
\* (the loop over users stops at the first match)
FirstMatch(users, id) ==
    IF \E i \in DOMAIN users : users[i] = id
    THEN CHOOSE i \in DOMAIN users : users[i] = id /\ \A k \in 1..(i - 1) : users[k] # id
    ELSE 0

\* startIdx as it would be if a forward page began at the item of the cursor
StartIdxAtMatch(match, forward, limit) ==
    IF match = 0 THEN 0
    ELSE IF forward THEN match - 1
    ELSE IF (match - 1) - limit < 0 THEN 0 ELSE (match - 1) - limit

\* startIdx, an index from 0, given the position of the match: i + 1 going
\* forward, i - c.Limit (not below 0) going backward, 0 without a match
StartIdx(match, forward, limit) ==
    IF match = 0 THEN 0
    ELSE IF forward THEN match
    ELSE IF (match - 1) - limit < 0 THEN 0 ELSE (match - 1) - limit

BadRequest == [status |-> 400, items |-> <<>>, next |-> <<>>, prev |-> <<>>, hasMore |-> FALSE]

\* the response, from pageUsers := users[startIdx:endIdx] on
CursorPage(users, startIdx, endIdx, nextCursor) ==
    [status  |-> 200,
     items   |-> Slice(users, startIdx + 1, endIdx),
     next    |-> nextCursor,
     prev    |-> IF startIdx > 0 /\ endIdx > startIdx
                 THEN NewCursorFromID(users[startIdx + 1]).token ELSE <<>>,
     hasMore |-> nextCursor # <<>>]

\* from endIdx on: the next cursor is the id of the last user of the page
PageUpTo(users, startIdx, endIdx) ==
    CursorPage(users, startIdx, endIdx,
               IF endIdx < Len(users) THEN NewCursorFromID(users[endIdx]).token ELSE <<>>)

\* from startIdx on: endIdx is startIdx + c.Limit, not beyond the list
PageFrom(users, startIdx, limit) ==
    PageUpTo(users, startIdx,
             IF startIdx + limit > Len(users) THEN Len(users) ELSE startIdx + limit)

\* the handler once the cursor is decoded: d is the pair (cursorData, err)
PageAfterDecode(users, c, d) ==
    IF d.err # NoError THEN BadRequest
    ELSE PageFrom(users, StartIdx(FirstMatch(users, Deref(d.data).ID), c.Forward, c.Limit),
                  c.Limit)

\* the handler once the request is parsed
PageOf(users, c) ==
    IF ValidateCursor(c) # NilError THEN BadRequest
    ELSE IF HasCursor(c) THEN PageAfterDecode(users, c, PaginatorDecode(c))
    ELSE PageFrom(users, 0, c.Limit)

\* handleCursorPagination on the query q
handleCursorPagination(users, q, bits) == PageOf(users, CursorFromQuery(q, bits))

----------------------------------------------------------------------------
(* Range *)

ItemsUnit == <<"i", "t", "e", "m", "s">>

NewRange(start, end) == [Start |-> start, End |-> end, Unit |-> ItemsUnit]

NewRangeWithUnit(start, end, unit) == [Start |-> start, End |-> end, Unit |-> unit]

\* (r *Range) Size
Size(r) ==
    IF r.End < r.Start THEN 0
    ELSE Add64(Sub64(r.End, r.Start), 1)

\* Validate as it would be with End <= Start for End < Start
ValidateNoSingleton(r) ==
    IF r.Start < 0 THEN ErrInvalidOffset
    ELSE IF r.End <= r.Start THEN ErrInvalidRange
    ELSE NoError

\* Validate as it would be with its two tests in the other order
ValidateRangeFirst(r) ==
    IF r.End < r.Start THEN ErrInvalidRange
    ELSE IF r.Start < 0 THEN ErrInvalidOffset
    ELSE NoError

\* (r *Range) Validate
Validate(r) ==
    IF r.Start < 0 THEN ErrInvalidOffset
    ELSE IF r.End < r.Start THEN ErrInvalidRange
    ELSE NoError

\* rangeRegex as it would be without the closing $ : text may follow the end
rangeRegexOpen(header) ==
    LET u     == PrefixLen(header, WordChars)
        rest1 == Drop(header, u)
        rest2 == Drop(rest1, 1)
        d     == PrefixLen(rest2, DigitChars)
        rest3 == Drop(rest2, d)
        rest4 == Drop(rest3, 1)
    IN  IF /\ u >= 1
           /\ rest1 # <<>> /\ Head(rest1) = "="
           /\ d >= 1
           /\ rest3 # <<>> /\ Head(rest3) = "-"
        THEN <<header, Take(header, u), Take(rest2, d),
               Take(rest4, PrefixLen(rest4, DigitChars))>>
        ELSE <<>>

\* rangeRegex.FindStringSubmatch for ^(\w+)=(\d+)-(\d*)$ : <<>> when the text
\* does not match, otherwise <<text, unit, start, end>>.  Neither "=" nor "-"
\* is a word character or a digit, so each group is the longest run of its class.
rangeRegex(header) ==
    LET u     == PrefixLen(header, WordChars)
        rest1 == Drop(header, u)
        rest2 == Drop(rest1, 1)
        d     == PrefixLen(rest2, DigitChars)
        rest3 == Drop(rest2, d)
        rest4 == Drop(rest3, 1)
    IN  IF /\ u >= 1
           /\ rest1 # <<>> /\ Head(rest1) = "="
           /\ d >= 1
           /\ rest3 # <<>> /\ Head(rest3) = "-"
           /\ PrefixLen(rest4, DigitChars) = Len(rest4)
        THEN <<header, Take(header, u), Take(rest2, d), rest4>>
        ELSE <<>>

\* end = start + int64(DefaultPageSize) - 1
OpenEnd(start) == Sub64(Add64(start, DefaultPageSize), 1)

\* ParseRangeHeader: the pair (rng, err) it returns
ParseRangeHeader(header) ==
    IF header = <<>> THEN [rng |-> Nil, err |-> NoError]
    ELSE LET matches == rangeRegex(header) IN
    IF matches = <<>> THEN [rng |-> Nil, err |-> ErrInvalidRange]
    ELSE LET unit  == matches[2]
             start == ParseInt(matches[3])
             endp  == ParseInt(matches[4])
         IN
    IF start.err # NoError THEN [rng |-> Nil, err |-> ErrInvalidOffset]
    ELSE IF matches[4] # <<>> /\ endp.err # NoError
    THEN [rng |-> Nil, err |-> ErrInvalidRange]
    ELSE LET end == IF matches[4] # <<>> THEN endp.val ELSE OpenEnd(start.val)
             r   == [Start |-> start.val, End |-> end, Unit |-> unit]
         IN  [rng |-> Ref(r), err |-> Validate(r)]

\* (r *Range) ToPaginator
ToPaginator(r) ==
    LET size0    == ToInt(Size(r))
        size1    == IF size0 <= 0 THEN DefaultPageSize ELSE size0
        pageSize == IF size1 > MaxPageSize THEN MaxPageSize ELSE size1
        page     == Add64(ToInt(Div64(r.Start, pageSize)), 1)
    IN  NewFromValues(page, pageSize)

----------------------------------------------------------------------------
(* Inputs of the range side *)

HeaderAlphabet == {"a", "=", "-", "7", " "}

RECURSIVE TextsOfLen(_, _)
\* every text of exactly n characters of alphabet
TextsOfLen(alphabet, n) ==
    IF n = 0 THEN {<<>>}
    ELSE {<<c>> \o t : c \in alphabet, t \in TextsOfLen(alphabet, n - 1)}

ShortHeaders == UNION {TextsOfLen(HeaderAlphabet, n) : n \in 0..MaxHeaderLen}

Units == {ItemsUnit, <<"b", "y", "t", "e", "s">>, <<"A", "_", "1">>}

\* numbers around zero, around the default page and around the top of int64
HeaderNumbers ==
    {0, 1, 5, 10, 24, 50,
     MaxInt64 - DefaultPageSize, MaxInt64 - DefaultPageSize + 1,
     MaxInt64 - DefaultPageSize + 2, MaxInt64 - 1, MaxInt64, MaxInt64 + 1}

NumberTexts == {FormatUint(n) : n \in HeaderNumbers} \cup {<<"0", "0", "7">>}

WellFormed(unit, st, en) == unit \o <<"=">> \o st \o <<"-">> \o en

LongHeaders ==
    {WellFormed(u, st, en) : u \in Units, st \in NumberTexts, en \in NumberTexts \cup {<<>>}}

\* near misses of the grammar: a sign, surrounding white space, a missing
\* separator, a missing start
BrokenHeaders ==
    UNION {{ <<" ">> \o WellFormed(ItemsUnit, st, en),
             WellFormed(ItemsUnit, st, en) \o <<" ">>,
             WellFormed(ItemsUnit, st, en) \o <<"\n">>,
             WellFormed(ItemsUnit, <<"-">> \o st, en),
             WellFormed(ItemsUnit, <<"+">> \o st, en),
             WellFormed(ItemsUnit, st, <<"-">> \o en),
             ItemsUnit \o st \o <<"-">> \o en,
             ItemsUnit \o <<"=">> \o st \o en,
             ItemsUnit \o <<"=">> \o <<"-">> \o en,
             <<"=">> \o st \o <<"-">> \o en }
           : st \in {<<"0">>, <<"2", "4">>}, en \in {<<>>, <<"2", "4">>}}

Headers == ShortHeaders \cup LongHeaders \cup BrokenHeaders

Int64Samples ==
    {MinInt64, MinInt64 + 1, -1, 0, 1, 5, DefaultPageSize - 1, DefaultPageSize,
     MaxPageSize - 1, MaxPageSize, MaxPageSize + 1, MaxInt64 - 1, MaxInt64}

RangeInputs ==
    {[kind |-> "header", header |-> h, start |-> 0, end |-> 0] : h \in Headers}
    \cup
    {[kind |-> "new", header |-> <<>>, start |-> a, end |-> b] :
        a \in Int64Samples, b \in Int64Samples}

----------------------------------------------------------------------------
(* Inputs of the codec side *)

IDs == {<<>>, <<"u", "1">>, <<"a", "<", "\"", "\\">>}

\* the values a caller can put in Value under each T
ValuesOf(T) ==
    CASE T = "any" ->
             {NilValue, StringValue(<<>>), StringValue(<<"h", "i">>), IntValue(0),
              IntValue(42), FloatValue(3, <<>>), FloatValue(42, <<"5">>),
              BoolValue(TRUE), BoolValue(FALSE)}
      [] T = "string" -> {StringValue(<<>>), StringValue(<<"h", "i">>), StringValue(<<"4", "2">>)}
      [] T = "int" -> {IntValue(0), IntValue(42), IntValue(-7), IntValue(MaxInt64)}
      [] T = "bool" -> {BoolValue(FALSE), BoolValue(TRUE)}
      [] T = "float64" -> {FloatValue(0, <<>>), FloatValue(3, <<>>), FloatValue(-2, <<"2", "5">>)}

\* no time, a UTC time, a time.Now() in a zone east of UTC, and a time in the
\* year 10000
Timestamps ==
    {ZeroTime,
     GoTime(2024, 1, 15, 12, 0, 5, <<>>, 0, FALSE),
     GoTime(2024, 1, 15, 12, 0, 5, <<"1", "2", "5">>, 330, TRUE),
     GoTime(10000, 1, 1, 0, 0, 0, <<>>, 0, FALSE)}

Offsets == {0, 42, -1}

Payloads(T) ==
    {CursorData(id, v, ts, o) : id \in IDs, v \in ValuesOf(T), ts \in Timestamps, o \in Offsets}

\* texts a client can put under base64 in place of a payload, each with the
\* types T under which encoding/json accepts it as a CursorData[T]
ForgedBodies ==
    {
      [body |-> <<"t", "h", "i", "s", " ", "i", "s", " ", "n", "o", "t", " ", "j", "s", "o", "n">>,
       validFor |-> {}],
      [body |-> <<"n", "u", "l", "l">>,
       validFor |-> ValueTypes],
      [body |-> <<"{", "}">>,
       validFor |-> ValueTypes],
      [body |-> <<" ", "{", " ", "}", " ", "\n">>,
       validFor |-> ValueTypes],
      [body |-> <<"{", "\"", "i", "d", "\"", ":", "\"", "a", "\"", "}">>,
       validFor |-> ValueTypes],
      [body |-> <<"{", "\"", "I", "D", "\"", ":", "\"", "a", "\"", "}">>,
       validFor |-> ValueTypes],
      [body |-> <<"{", "\"", "i", "d", "\"", ":", "n", "u", "l", "l", ",", "\"", "o", "\"", ":", "n", "u", "l", "l", ",", "\"", "t", "s", "\"", ":", "n", "u", "l", "l", ",", "\"", "v", "\"", ":", "n", "u", "l", "l", "}">>,
       validFor |-> ValueTypes],
      [body |-> <<"{", "\"", "x", "\"", ":", "1", ",", "\"", "o", "\"", ":", "3", "}">>,
       validFor |-> ValueTypes],
      [body |-> <<"{", "\"", "o", "\"", ":", "1", ",", "\"", "o", "\"", ":", "2", "}">>,
       validFor |-> ValueTypes],
      [body |-> <<"{", "\"", "i", "d", "\"", ":", "\"", "a", "\\", "u", "0", "0", "3", "c", "b", "\\", "n", "\"", "}">>,
       validFor |-> ValueTypes],
      [body |-> <<"{", "\"", "t", "s", "\"", ":", "\"", "2", "0", "2", "4", "-", "0", "1", "-", "1", "5", "T", "1", "2", ":", "0", "0", ":", "0", "5", ".", "2", "5", "-", "0", "8", ":", "0", "0", "\"", "}">>,
       validFor |-> ValueTypes],
      [body |-> <<"{", "\"", "i", "d", "\"", ":", "5", "}">>,
       validFor |-> {}],
      [body |-> <<"{", "\"", "o", "\"", ":", "\"", "x", "\"", "}">>,
       validFor |-> {}],
      [body |-> <<"{", "\"", "o", "\"", ":", "1", ".", "5", "}">>,
       validFor |-> {}],
      [body |-> <<"{", "\"", "o", "\"", ":">> \o FormatUint(MaxInt64 + 1) \o <<"}">>,
       validFor |-> {}],
      [body |-> <<"{", "\"", "t", "s", "\"", ":", "\"", "y", "e", "s", "t", "e", "r", "d", "a", "y", "\"", "}">>,
       validFor |-> {}],
      [body |-> <<"{", "\"", "t", "s", "\"", ":", "\"", "2", "0", "2", "4", "-", "0", "2", "-", "3", "0", "T", "0", "0", ":", "0", "0", ":", "0", "0", "Z", "\"", "}">>,
       validFor |-> {}],
      [body |-> <<"{", "\"", "t", "s", "\"", ":", "5", "}">>,
       validFor |-> {}],
      [body |-> <<"{", "\"", "i", "d", "\"", ":", "\"", "a", "\"">>,
       validFor |-> {}],
      [body |-> <<"{", "\"", "i", "d", "\"", ":", "\"", "a", "\"", ",", "}">>,
       validFor |-> {}],
      [body |-> <<"{", "\"", "i", "d", "\"", ":", "\"", "a", "\"", "}", "x">>,
       validFor |-> {}],
      [body |-> <<"{", "\"", "i", "d", "\"", ":", "\"", "a", "\"", " ", "\"", "o", "\"", ":", "1", "}">>,
       validFor |-> {}],
      [body |-> <<"{", "i", "d", ":", "\"", "a", "\"", "}">>,
       validFor |-> {}],
      [body |-> <<"{", "\"", "o", "\"", ":", "0", "1", "}">>,
       validFor |-> {}],
      [body |-> <<"[", "]">>,
       validFor |-> {}],
      [body |-> <<"\"", "s", "t", "r", "\"">>,
       validFor |-> {}],
      [body |-> <<"4", "2">>,
       validFor |-> {}],
      [body |-> <<"t", "r", "u", "e">>,
       validFor |-> {}],
      [body |-> <<"{", "\"", "v", "\"", ":", "1", "}">>,
       validFor |-> {"any", "int", "float64"}],
      [body |-> <<"{", "\"", "v", "\"", ":", "1", ".", "5", "}">>,
       validFor |-> {"any", "float64"}],
      [body |-> <<"{", "\"", "v", "\"", ":", "\"", "s", "\"", "}">>,
       validFor |-> {"any", "string"}],
      [body |-> <<"{", "\"", "v", "\"", ":", "t", "r", "u", "e", "}">>,
       validFor |-> {"any", "bool"}]
    }

\* tokens that are not base64url at all (a character outside the alphabet,
\* a length that is no multiple of four, padding out of place)
MalformedTokens ==
    {<<"=", "=", "=", "=">>,
     <<"=", "e", "3", "0">>,
     <<"e", "3", " ", "0", "=">>,
     <<"e", "3", "0">>,
     <<"e", "3", "0", "=", "=">>,
     <<"e", "3", "0", "=", "e", "3", "0", "=">>,
     <<"i", "n", "v", "a", "l", "i", "d", "-", "c", "u", "r", "s", "o", "r">>,
     <<"n", "o", "t", "-", "v", "a", "l", "i", "d", "-", "b", "a", "s", "e", "6", "4", "!", "!", "!">>}

CodecInput(kind, T, data, token, validFor) ==
    [kind |-> kind, T |-> T, data |-> data, token |-> token, validFor |-> validFor]

NoInput == CodecInput("none", "any", Nil, <<>>, {})

\* a payload (or nil) to encode under T; a forged text under proper base64;
\* a token that is no base64
CodecInputs ==
    UNION {{CodecInput("payload", T, Ref(p), <<>>, {}) : p \in Payloads(T)} : T \in ValueTypes}
    \cup
    {CodecInput("payload", T, Nil, <<>>, {}) : T \in ValueTypes}
    \cup
    {CodecInput("forged", T, Nil, EncodeToString(f.body), f.validFor) :
        T \in ValueTypes, f \in ForgedBodies}
    \cup
    {CodecInput("malformed", T, Nil, t, {}) : T \in ValueTypes, t \in MalformedTokens}

----------------------------------------------------------------------------
(* Each side rests while the other runs *)

CodecIdle ==
    /\ cpc = "idle"
    /\ cin = NoInput
    /\ ctoken = <<>>
    /\ cencerr = NoError
    /\ ctamper = "none"
    /\ cvia = "none"
    /\ cdtype = "any"
    /\ cout = Nil
    /\ cerr = NoError

RangeIdle ==
    /\ rpc = "idle"
    /\ rin = [kind |-> "none", header |-> <<>>, start |-> 0, end |-> 0]
    /\ rng = Nil
    /\ rerr = NoError
    /\ rcall = "none"
    /\ rsize = 0
    /\ rverr = NoError
    /\ rpag = New

PaginatorIdle ==
    /\ intSize = Int64Bits
    /\ heap = <<>>
    /\ hist = <<>>

GoroutinesIdle ==
    /\ shared = New
    /\ gor = <<>>
    /\ clones = <<>>

QueryIdle ==
    /\ qin = [kind |-> "none"]
    /\ qout = Nil

ResponseIdle ==
    /\ xin = [kind |-> "none"]
    /\ xout = Nil

BuilderIdle ==
    /\ bcur = New
    /\ bsteps = <<>>

TraversalIdle ==
    /\ items = <<>>
    /\ elimit = DefaultPageSize
    /\ ecursor = <<>>
    /\ epages = <<>>
    /\ epc = "idle"

----------------------------------------------------------------------------
(* The range side as a state machine: a caller builds a Range from a header *)
(* or from two numbers, then calls its methods.                             *)

RangeInit ==
    /\ rpc = "start"
    /\ rin \in RangeInputs
    /\ rng = Nil
    /\ rerr = NoError
    /\ rcall = "none"
    /\ rsize = 0
    /\ rverr = NoError
    /\ rpag = New
    /\ CodecIdle
    /\ PaginatorIdle
    /\ GoroutinesIdle
    /\ QueryIdle
    /\ ResponseIdle
    /\ BuilderIdle
    /\ TraversalIdle

ParseRangeHeaderCall ==
    /\ rpc = "start"
    /\ rin.kind = "header"
    /\ \E out \in {ParseRangeHeader(rin.header)} :
          /\ rng' = out.rng
          /\ rerr' = out.err
    /\ rpc' = "built"
    /\ UNCHANGED <<rin, rcall, rsize, rverr, rpag>>

NewRangeCall ==
    /\ rpc = "start"
    /\ rin.kind = "new"
    /\ rng' = Ref(NewRange(rin.start, rin.end))
    /\ rerr' = NoError
    /\ rpc' = "built"
    /\ UNCHANGED <<rin, rcall, rsize, rverr, rpag>>

SizeCall ==
    /\ rpc = "built"
    /\ rng # Nil
    /\ rcall = "none"
    /\ rsize' = Size(Deref(rng))
    /\ rcall' = "Size"
    /\ UNCHANGED <<rpc, rin, rng, rerr, rverr, rpag>>

ValidateCall ==
    /\ rpc = "built"
    /\ rng # Nil
    /\ rcall = "none"
    /\ rverr' = Validate(Deref(rng))
    /\ rcall' = "Validate"
    /\ UNCHANGED <<rpc, rin, rng, rerr, rsize, rpag>>

ToPaginatorCall ==
    /\ rpc = "built"
    /\ rng # Nil
    /\ rcall = "none"
    /\ rpag' = ToPaginator(Deref(rng))
    /\ rcall' = "ToPaginator"
    /\ UNCHANGED <<rpc, rin, rng, rerr, rsize, rverr>>

RangeNext ==
    \/ (ParseRangeHeaderCall /\ UNCHANGED <<cvars, pvars, tvars, qvars, xvars, bvars, evars>>)
    \/ (NewRangeCall /\ UNCHANGED <<cvars, pvars, tvars, qvars, xvars, bvars, evars>>)
    \/ (SizeCall /\ UNCHANGED <<cvars, pvars, tvars, qvars, xvars, bvars, evars>>)
    \/ (ValidateCall /\ UNCHANGED <<cvars, pvars, tvars, qvars, xvars, bvars, evars>>)
    \/ (ToPaginatorCall /\ UNCHANGED <<cvars, pvars, tvars, qvars, xvars, bvars, evars>>)

SpecRange == RangeInit /\ [][RangeNext]_vars

----------------------------------------------------------------------------
(* The codec side as a state machine: a server encodes a payload into a    *)
(* token and hands it to a client; the client hands a token back, the one  *)
(* it got, a damaged one or one of its own making; the server decodes it.  *)

Init ==
    /\ cpc = "start"
    /\ cin \in CodecInputs
    /\ ctoken = <<>>
    /\ cencerr = NoError
    /\ ctamper = "none"
    /\ cvia = "none"
    /\ cdtype = "any"
    /\ cout = Nil
    /\ cerr = NoError
    /\ RangeIdle
    /\ PaginatorIdle
    /\ GoroutinesIdle
    /\ QueryIdle
    /\ ResponseIdle
    /\ BuilderIdle
    /\ TraversalIdle

\* token, err := EncodeCursor(data)
EncodeCursorCall ==
    /\ cpc = "start"
    /\ cin.kind = "payload"
    /\ \E out \in {EncodeCursor(cin.T, cin.data)} :
          /\ ctoken' = out.token
          /\ cencerr' = out.err
    /\ cpc' = "token"
    /\ UNCHANGED <<cin, ctamper, cvia, cdtype, cout, cerr>>

\* the client sends a token the server never issued
ReceiveToken ==
    /\ cpc = "start"
    /\ cin.kind \in {"forged", "malformed"}
    /\ ctoken' = cin.token
    /\ ctamper' = cin.kind
    /\ cpc' = "token"
    /\ UNCHANGED <<cin, cencerr, cvia, cdtype, cout, cerr>>

Issued == cpc = "token" /\ cin.kind = "payload" /\ ctamper = "none" /\ ctoken # <<>>

\* the client strips the trailing "=" padding
StripPadding ==
    /\ Issued
    /\ ctoken[Len(ctoken)] = PadChar
    /\ ctoken' = SelectSeq(ctoken, LAMBDA c : c # PadChar)
    /\ ctamper' = "unpadded"
    /\ UNCHANGED <<cpc, cin, cencerr, cvia, cdtype, cout, cerr>>

\* a character outside the alphabet replaces the first one
CorruptChar ==
    /\ Issued
    /\ ctoken' = <<"!">> \o Tail(ctoken)
    /\ ctamper' = "corrupted"
    /\ UNCHANGED <<cpc, cin, cencerr, cvia, cdtype, cout, cerr>>

\* the token loses its last four characters: what is left is base64 of a
\* JSON text cut short
Truncate ==
    /\ Issued
    /\ ctoken' = Take(ctoken, Len(ctoken) - 4)
    /\ ctamper' = "truncated"
    /\ UNCHANGED <<cpc, cin, cencerr, cvia, cdtype, cout, cerr>>

\* a mail client wraps the token: a line break after the fourth character
WrapLine ==
    /\ Issued
    /\ ctoken' = Take(ctoken, 4) \o <<"\r", "\n">> \o Drop(ctoken, 4)
    /\ ctamper' = "wrapped"
    /\ UNCHANGED <<cpc, cin, cencerr, cvia, cdtype, cout, cerr>>

\* data, err := DecodeCursor[T](token), T the type the token was made for or any
DecodeCursorCall ==
    /\ cpc = "token"
    /\ \E T \in {cin.T, "any"} :
          \E out \in {DecodeCursor(T, ctoken)} :
             /\ cdtype' = T
             /\ cout' = out.data
             /\ cerr' = out.err
    /\ cvia' = "DecodeCursor"
    /\ cpc' = "decoded"
    /\ UNCHANGED <<cin, ctoken, cencerr, ctamper>>

\* data, err := NewCursor().WithCursor(token).Decode()
PaginatorDecodeCall ==
    /\ cpc = "token"
    /\ \E out \in {PaginatorDecode(WithCursor(NewCursor, ctoken))} :
          /\ cout' = out.data
          /\ cerr' = out.err
    /\ cdtype' = "any"
    /\ cvia' = "Decode"
    /\ cpc' = "decoded"
    /\ UNCHANGED <<cin, ctoken, cencerr, ctamper>>

Next ==
    \/ (EncodeCursorCall /\ UNCHANGED <<rvars, pvars, tvars, qvars, xvars, bvars, evars>>)
    \/ (ReceiveToken /\ UNCHANGED <<rvars, pvars, tvars, qvars, xvars, bvars, evars>>)
    \/ (StripPadding /\ UNCHANGED <<rvars, pvars, tvars, qvars, xvars, bvars, evars>>)
    \/ (CorruptChar /\ UNCHANGED <<rvars, pvars, tvars, qvars, xvars, bvars, evars>>)
    \/ (Truncate /\ UNCHANGED <<rvars, pvars, tvars, qvars, xvars, bvars, evars>>)
    \/ (WrapLine /\ UNCHANGED <<rvars, pvars, tvars, qvars, xvars, bvars, evars>>)
    \/ (DecodeCursorCall /\ UNCHANGED <<rvars, pvars, tvars, qvars, xvars, bvars, evars>>)
    \/ (PaginatorDecodeCall /\ UNCHANGED <<rvars, pvars, tvars, qvars, xvars, bvars, evars>>)

Spec == Init /\ [][Next]_vars

----------------------------------------------------------------------------
(* The paginators as objects: a caller holds pointers to a Paginator, a     *)
(* CursorPaginator or a Range, calls one method of the object it was given,  *)
(* then validates the objects it holds and assigns to the fields of the      *)
(* object the call returned. heap[a] is the object at address a; hist is     *)
(* the calls made so far.                                                    *)

IntSizes == {Int32Bits, Int64Bits}

Pages(bits) == {MinInt(bits), -1, 0, 1, 2, 3, MaxInt(bits)}
PageSizes == {-1, 0, 1, 3, DefaultPageSize, MaxPageSize, MaxPageSize + 1}

PaginatorObjects(bits) ==
    {[Page |-> page, PageSize |-> size] : page \in Pages(bits), size \in PageSizes}

\* "", the token of an empty payload, a token that is not base64, a token
\* whose bytes are no JSON
Cursors ==
    {<<>>,
     <<"e", "3", "0", "=">>,
     <<"b", "a", "d", "!">>,
     <<"Y", "W", "J", "j">>}

Limits == {-1, 0, 1, DefaultPageSize, MaxPageSize, MaxPageSize + 1}

CursorObjects ==
    {[Cursor |-> cursor, Limit |-> limit, Forward |-> forward] :
        cursor \in Cursors, limit \in Limits, forward \in BOOLEAN}

RangeObjects ==
    {NewRange(start, end) : start \in {-1, 0, 5}, end \in {-1, 0, 4, 5, 24}}

Objects(bits) == PaginatorObjects(bits) \cup CursorObjects \cup RangeObjects

IsPaginator(o) == "Page" \in DOMAIN o
IsCursorPaginator(o) == "Limit" \in DOMAIN o
IsRange(o) == "Start" \in DOMAIN o

PageArgs(bits) == {MinInt(bits), -1, 0, 1, 2, 7, MaxInt(bits)}
SizeArgs(bits) ==
    {MinInt(bits), -1, 0, MinPageSize, DefaultPageSize, MaxPageSize - 1, MaxPageSize,
     MaxPageSize + 1, MaxInt(bits)}
Totals ==
    {MinInt64, -1, 0, 1, DefaultPageSize, DefaultPageSize + 1, 41,
     MaxInt(Int32Bits), MaxInt(Int32Bits) + 1, 3 * MaxInt(Int32Bits) + 2, MaxInt64}

\* the values a caller assigns to a field
Assigned(field) ==
    IF field = "Cursor" THEN {<<>>, <<"x">>}
    ELSE IF field = "Forward" THEN BOOLEAN
    ELSE IF field = "Unit" THEN {ItemsUnit}
    ELSE {0, 5}

\* one entry of hist: res is the address returned (0 when the method returns
\* no pointer), ret the value returned, before the heap when it was called
Call(op, recv, arg, res, ret, before) ==
    [op |-> op, recv |-> recv, arg |-> arg, res |-> res, ret |-> ret, before |-> before]

PaginatorInit ==
    /\ intSize \in IntSizes
    /\ heap \in {<<o>> : o \in UNION {Objects(bits) : bits \in IntSizes}}
    /\ IsPaginator(heap[1]) =>
          /\ heap[1].Page \in Pages(intSize)
    /\ hist = <<>>
    /\ CodecIdle
    /\ RangeIdle
    /\ GoroutinesIdle
    /\ QueryIdle
    /\ ResponseIdle
    /\ BuilderIdle
    /\ TraversalIdle

\* a method that would write into its receiver and return it
ReturnsReceiver(op, a, arg, obj) ==
    /\ heap' = [heap EXCEPT ![a] = obj]
    /\ hist' = Append(hist, Call(op, a, arg, a, 0, heap))
    /\ UNCHANGED intSize

\* the method returns a pointer to a new object
ReturnsNew(op, a, arg, obj) ==
    /\ heap' = Append(heap, obj)
    /\ hist' = Append(hist, Call(op, a, arg, Len(heap) + 1, 0, heap))
    /\ UNCHANGED intSize

\* a method that would reset its receiver to the defaults before returning
ReturnsValueRepairing(op, a, arg, out) ==
    /\ hist' = Append(hist, Call(op, a, arg, 0, out, heap))
    /\ heap' = [heap EXCEPT ![a] = IF IsPaginator(@) THEN New
                                   ELSE IF IsCursorPaginator(@) THEN NewCursor
                                   ELSE NewRange(0, 0)]
    /\ UNCHANGED intSize

\* the method returns a value
ReturnsValue(op, a, arg, out) ==
    /\ hist' = Append(hist, Call(op, a, arg, 0, out, heap))
    /\ UNCHANGED <<intSize, heap>>

WithPageCall ==
    /\ hist = <<>>
    /\ IsPaginator(heap[1])
    /\ \E page \in PageArgs(intSize) :
          ReturnsNew("WithPage", 1, page, WithPage(heap[1], page))

WithPageSizeCall ==
    /\ hist = <<>>
    /\ IsPaginator(heap[1])
    /\ \E size \in SizeArgs(intSize) :
          ReturnsNew("WithPageSize", 1, size, WithPageSize(heap[1], size))

CloneCall ==
    /\ hist = <<>>
    /\ IsPaginator(heap[1])
    /\ ReturnsNew("Clone", 1, 0, Clone(heap[1]))

\* the methods that take the total count
TotalOps == {"Clamp", "TotalPages", "HasNext", "IsLastPage", "IsEmpty"}

\* the caller asks about a total: as its first call, or after a call that took
\* the total, and then about the same total
AsksAboutTotal ==
    \/ hist = <<>>
    \/ hist # <<>> /\ Len(hist) < MaxCalls /\ hist[Len(hist)].op \in TotalOps

TotalsNow == IF hist = <<>> THEN Totals ELSE {hist[Len(hist)].arg}

\* the address the caller calls on: the object it was given, then the one
\* the last call returned
Held ==
    IF hist = <<>> THEN 1
    ELSE IF hist[Len(hist)].res # 0 THEN hist[Len(hist)].res
    ELSE hist[Len(hist)].recv

\* Clamp returns the receiver itself when its page is in range
ClampCall ==
    /\ AsksAboutTotal
    /\ IsPaginator(heap[Held])
    /\ \E total \in TotalsNow :
          \E out \in {Clamp(heap[Held], total, intSize)} :
             IF out.same
             THEN /\ hist' = Append(hist, Call("Clamp", Held, total, Held, 0, heap))
                  /\ UNCHANGED <<intSize, heap>>
             ELSE ReturnsNew("Clamp", Held, total, out.p)

HasNextCall ==
    /\ AsksAboutTotal
    /\ IsPaginator(heap[Held])
    /\ \E total \in TotalsNow :
          ReturnsValue("HasNext", Held, total, HasNext(heap[Held], total, intSize))

IsLastPageCall ==
    /\ AsksAboutTotal
    /\ IsPaginator(heap[Held])
    /\ \E total \in TotalsNow :
          ReturnsValue("IsLastPage", Held, total, IsLastPage(heap[Held], total, intSize))

IsEmptyCall ==
    /\ AsksAboutTotal
    /\ IsPaginator(heap[Held])
    /\ \E total \in TotalsNow :
          ReturnsValue("IsEmpty", Held, total, IsEmpty(heap[Held], total, intSize))

OffsetCall ==
    /\ hist = <<>>
    /\ IsPaginator(heap[1])
    /\ ReturnsValue("Offset", 1, 0, Offset(heap[1], intSize))

TotalPagesCall ==
    /\ hist = <<>>
    /\ IsPaginator(heap[1])
    /\ \E total \in Totals :
          ReturnsValue("TotalPages", 1, total, TotalPages(heap[1], total, intSize))

WithLimitCall ==
    /\ hist = <<>>
    /\ IsCursorPaginator(heap[1])
    /\ \E limit \in SizeArgs(intSize) :
          ReturnsNew("WithLimit", 1, limit, WithLimit(heap[1], limit))

WithCursorCall ==
    /\ hist = <<>>
    /\ IsCursorPaginator(heap[1])
    /\ \E cursor \in Cursors :
          ReturnsNew("WithCursor", 1, cursor, WithCursor(heap[1], cursor))

WithForwardCall ==
    /\ hist = <<>>
    /\ IsCursorPaginator(heap[1])
    /\ \E forward \in BOOLEAN :
          ReturnsNew("WithForward", 1, forward, WithForward(heap[1], forward))

CloneCursorCall ==
    /\ hist = <<>>
    /\ IsCursorPaginator(heap[1])
    /\ ReturnsNew("Clone", 1, 0, CloneCursor(heap[1]))

ValidatePaginatorCall ==
    /\ Len(hist) < MaxCalls
    /\ \E a \in DOMAIN heap :
          /\ IsPaginator(heap[a])
          /\ ReturnsValue("Validate", a, 0, ValidatePaginator(heap[a]))

ValidateCursorCall ==
    /\ Len(hist) < MaxCalls
    /\ \E a \in DOMAIN heap :
          /\ IsCursorPaginator(heap[a])
          /\ ReturnsValue("Validate", a, 0, ValidateCursor(heap[a]))

ValidateRangeCall ==
    /\ Len(hist) < MaxCalls
    /\ \E a \in DOMAIN heap :
          /\ IsRange(heap[a])
          /\ ReturnsValue("Validate", a, 0, Sentinel(Validate(heap[a])))

\* the caller assigns to a field of the object the first call returned
AssignField ==
    /\ hist # <<>>
    /\ Len(hist) < MaxCalls
    /\ hist[1].res # 0
    /\ \E field \in DOMAIN heap[hist[1].res] :
          \E v \in Assigned(field) :
             /\ heap' = [heap EXCEPT ![hist[1].res] = [@ EXCEPT ![field] = v]]
             /\ hist' = Append(hist, Call("Assign", hist[1].res, field, 0, v, heap))
             /\ UNCHANGED intSize

PaginatorNext ==
    \/ (WithPageCall /\ UNCHANGED <<rvars, cvars, tvars, qvars, xvars, bvars, evars>>)
    \/ (WithPageSizeCall /\ UNCHANGED <<rvars, cvars, tvars, qvars, xvars, bvars, evars>>)
    \/ (CloneCall /\ UNCHANGED <<rvars, cvars, tvars, qvars, xvars, bvars, evars>>)
    \/ (ClampCall /\ UNCHANGED <<rvars, cvars, tvars, qvars, xvars, bvars, evars>>)
    \/ (HasNextCall /\ UNCHANGED <<rvars, cvars, tvars, qvars, xvars, bvars, evars>>)
    \/ (IsLastPageCall /\ UNCHANGED <<rvars, cvars, tvars, qvars, xvars, bvars, evars>>)
    \/ (IsEmptyCall /\ UNCHANGED <<rvars, cvars, tvars, qvars, xvars, bvars, evars>>)
    \/ (OffsetCall /\ UNCHANGED <<rvars, cvars, tvars, qvars, xvars, bvars, evars>>)
    \/ (TotalPagesCall /\ UNCHANGED <<rvars, cvars, tvars, qvars, xvars, bvars, evars>>)
    \/ (WithLimitCall /\ UNCHANGED <<rvars, cvars, tvars, qvars, xvars, bvars, evars>>)
    \/ (WithCursorCall /\ UNCHANGED <<rvars, cvars, tvars, qvars, xvars, bvars, evars>>)
    \/ (WithForwardCall /\ UNCHANGED <<rvars, cvars, tvars, qvars, xvars, bvars, evars>>)
    \/ (CloneCursorCall /\ UNCHANGED <<rvars, cvars, tvars, qvars, xvars, bvars, evars>>)
    \/ (ValidatePaginatorCall /\ UNCHANGED <<rvars, cvars, tvars, qvars, xvars, bvars, evars>>)
    \/ (ValidateCursorCall /\ UNCHANGED <<rvars, cvars, tvars, qvars, xvars, bvars, evars>>)
    \/ (ValidateRangeCall /\ UNCHANGED <<rvars, cvars, tvars, qvars, xvars, bvars, evars>>)
    \/ (AssignField /\ UNCHANGED <<rvars, cvars, tvars, qvars, xvars, bvars, evars>>)

SpecPaginator == PaginatorInit /\ [][PaginatorNext]_vars

----------------------------------------------------------------------------
(* The builder API: a caller starts from New() or NewCursor() and calls the  *)
(* methods that return a paginator, each on the result of the call before.   *)
(* bcur is the paginator in hand, bsteps the calls made to get it.           *)

ChainPages(bits) == {MinInt(bits), 0, 3, MaxInt(bits)}
ChainSizes(bits) == {MinInt(bits), 0, 7, MaxPageSize + 1}
ChainTotals == {-1, 0, 41, MaxInt64}
ChainCursors == {<<>>, <<"b", "a", "d", "!">>}

BuilderInit ==
    /\ intSize \in IntSizes
    /\ heap = <<>>
    /\ hist = <<>>
    /\ bcur \in {New, NewCursor}
    /\ bsteps = <<>>
    /\ CodecIdle
    /\ RangeIdle
    /\ GoroutinesIdle
    /\ QueryIdle
    /\ ResponseIdle
    /\ TraversalIdle

\* bcur = bcur.op(arg)
Chained(op, arg, result) ==
    /\ Len(bsteps) < MaxChain
    /\ bcur' = result
    /\ bsteps' = Append(bsteps, [op |-> op, arg |-> arg])

ChainWithPage ==
    /\ IsPaginator(bcur)
    /\ \E page \in ChainPages(intSize) : Chained("WithPage", page, WithPage(bcur, page))

ChainWithPageSize ==
    /\ IsPaginator(bcur)
    /\ \E size \in ChainSizes(intSize) : Chained("WithPageSize", size, WithPageSize(bcur, size))

ChainClamp ==
    /\ IsPaginator(bcur)
    /\ \E total \in ChainTotals : Chained("Clamp", total, Clamp(bcur, total, intSize).p)

ChainClone ==
    /\ IsPaginator(bcur)
    /\ Chained("Clone", 0, Clone(bcur))

ChainWithLimit ==
    /\ IsCursorPaginator(bcur)
    /\ \E limit \in ChainSizes(intSize) : Chained("WithLimit", limit, WithLimit(bcur, limit))

ChainWithCursor ==
    /\ IsCursorPaginator(bcur)
    /\ \E cursor \in ChainCursors : Chained("WithCursor", cursor, WithCursor(bcur, cursor))

ChainWithForward ==
    /\ IsCursorPaginator(bcur)
    /\ \E forward \in BOOLEAN : Chained("WithForward", forward, WithForward(bcur, forward))

ChainCloneCursor ==
    /\ IsCursorPaginator(bcur)
    /\ Chained("Clone", 0, CloneCursor(bcur))

BuilderNext ==
    \/ (ChainWithPage /\ UNCHANGED <<rvars, cvars, pvars, tvars, qvars, xvars, evars>>)
    \/ (ChainWithPageSize /\ UNCHANGED <<rvars, cvars, pvars, tvars, qvars, xvars, evars>>)
    \/ (ChainClamp /\ UNCHANGED <<rvars, cvars, pvars, tvars, qvars, xvars, evars>>)
    \/ (ChainClone /\ UNCHANGED <<rvars, cvars, pvars, tvars, qvars, xvars, evars>>)
    \/ (ChainWithLimit /\ UNCHANGED <<rvars, cvars, pvars, tvars, qvars, xvars, evars>>)
    \/ (ChainWithCursor /\ UNCHANGED <<rvars, cvars, pvars, tvars, qvars, xvars, evars>>)
    \/ (ChainWithForward /\ UNCHANGED <<rvars, cvars, pvars, tvars, qvars, xvars, evars>>)
    \/ (ChainCloneCursor /\ UNCHANGED <<rvars, cvars, pvars, tvars, qvars, xvars, evars>>)

SpecBuilder == BuilderInit /\ [][BuilderNext]_vars

----------------------------------------------------------------------------
(* Goroutines on one shared Paginator: each goroutine calls one method on   *)
(* the pointer all of them hold. A call is three steps, each atomic: the     *)
(* load of Page, the load of PageSize, and the rest of the method, which     *)
(* works on the two values loaded and on memory of its own. A method that    *)
(* reads a field more than once sees one value as long as no step writes the *)
(* shared object. clones is the memory the calls have allocated.             *)

Goroutines == 1..NumGoroutines

SharedObjects ==
    {[Page |-> page, PageSize |-> size] : page \in {1, 3, 7}, size \in {DefaultPageSize, 0}}

\* the calls a goroutine makes: method and argument
SharedCalls ==
    {[op |-> "WithPage", arg |-> page] : page \in {0, 5}}
    \cup {[op |-> "WithPageSize", arg |-> size] : size \in {50, MaxPageSize + 1}}
    \cup {[op |-> "Offset", arg |-> 0]}
    \cup {[op |-> op, arg |-> total] : op \in {"HasNext", "TotalPages", "Clamp"}, total \in {0, 100}}

\* the method op with argument arg on a Paginator with the fields of p
Invoke(op, arg, p, bits) ==
    CASE op = "WithPage" -> [same |-> FALSE, p |-> WithPage(p, arg)]
      [] op = "WithPageSize" -> [same |-> FALSE, p |-> WithPageSize(p, arg)]
      [] op = "Clamp" -> Clamp(p, arg, bits)
      [] op = "Offset" -> Offset(p, bits)
      [] op = "HasNext" -> HasNext(p, arg, bits)
      [] op = "TotalPages" -> TotalPages(p, arg, bits)

ReturnsPointer(op) == op \in {"WithPage", "WithPageSize", "Clamp"}

Goroutine(pc, op, arg, page, size, before, res) ==
    [pc |-> pc, op |-> op, arg |-> arg, page |-> page, size |-> size,
     before |-> before, res |-> res]

NotStarted == Goroutine("go", "none", 0, 0, 0, New, 0)

GoroutinesInit ==
    /\ shared \in SharedObjects
    /\ gor = [g \in Goroutines |-> NotStarted]
    /\ clones = <<>>
    /\ CodecIdle
    /\ RangeIdle
    /\ PaginatorIdle
    /\ QueryIdle
    /\ ResponseIdle
    /\ BuilderIdle
    /\ TraversalIdle

\* goroutine g enters a method; before is the shared object as the call found it
CallShared(g) ==
    /\ gor[g].pc = "go"
    /\ \E c \in SharedCalls :
          gor' = [gor EXCEPT ![g] = Goroutine("called", c.op, c.arg, 0, 0, shared, 0)]
    /\ UNCHANGED <<shared, clones>>

LoadPage(g) ==
    /\ gor[g].pc = "called"
    /\ gor' = [gor EXCEPT ![g].pc = "page", ![g].page = shared.Page]
    /\ UNCHANGED <<shared, clones>>

LoadPageSize(g) ==
    /\ gor[g].pc = "page"
    /\ gor' = [gor EXCEPT ![g].pc = "loaded", ![g].size = shared.PageSize]
    /\ UNCHANGED <<shared, clones>>

\* a copy-on-write method that would assign to the field of its receiver
StoreShared(obj) ==
    /\ shared' = obj
    /\ UNCHANGED clones

\* the copy goes to memory the call has allocated
StoreCopy(obj) ==
    /\ clones' = Append(clones, obj)
    /\ UNCHANGED shared

\* the rest of the method, on the values loaded
Return(g) ==
    /\ gor[g].pc = "loaded"
    /\ \E out \in {Invoke(gor[g].op, gor[g].arg,
                          [Page |-> gor[g].page, PageSize |-> gor[g].size], intSize)} :
          /\ gor' = [gor EXCEPT ![g].pc = "done", ![g].res = out]
          /\ IF ReturnsPointer(gor[g].op) /\ ~out.same
             THEN StoreCopy(out.p)
             ELSE UNCHANGED <<shared, clones>>

GoroutinesNext ==
    \/ \E g \in Goroutines : (CallShared(g) /\ UNCHANGED <<rvars, cvars, pvars, qvars, xvars, bvars, evars>>)
    \/ \E g \in Goroutines : (LoadPage(g) /\ UNCHANGED <<rvars, cvars, pvars, qvars, xvars, bvars, evars>>)
    \/ \E g \in Goroutines : (LoadPageSize(g) /\ UNCHANGED <<rvars, cvars, pvars, qvars, xvars, bvars, evars>>)
    \/ \E g \in Goroutines : (Return(g) /\ UNCHANGED <<rvars, cvars, pvars, qvars, xvars, bvars, evars>>)

SpecGoroutines == GoroutinesInit /\ [][GoroutinesNext]_vars

----------------------------------------------------------------------------
(* Lenient parsing as a state machine: a request arrives with its query or  *)
(* its decoded body, and the handler builds a paginator from it.             *)

\* the largest int of the platform plus one, as a text
BeyondInt(bits) == FormatUint(MaxInt(bits) + 1)

PageTexts ==
    {<<>>, <<"a", "b", "c">>, <<"0">>, <<"-", "3">>, <<"5">>, <<"+", "7">>, <<" ", "5">>, <<"5", ".", "0">>,
     <<"1", "e", "3">>, FormatUint(MaxInt(Int32Bits)), BeyondInt(Int32Bits), BeyondInt(Int64Bits)}

SizeTexts ==
    {<<>>, <<"a", "b", "c">>, <<"0">>, <<"-", "1">>, <<"1">>, <<"5", "0">>, <<"1", "0", "0", "0">>, <<"1", "0", "0", "1">>,
     <<"5", "0", " ">>, <<"0", "x", "1", "0">>, BeyondInt(Int32Bits), BeyondInt(Int64Bits)}

Queries ==
    {[page |-> page, page_size |-> size, limit |-> limit, per_page |-> perPage] :
        page \in PageTexts, size \in SizeTexts,
        limit \in {<<>>, <<"x">>, <<"0">>, <<"5", "0">>},
        perPage \in {<<>>, <<"-", "1">>, <<"3", "0">>, <<"5", "0", "0", "0">>}}

CursorQueries ==
    {[cursor |-> cursor, after |-> after, before |-> before, limit |-> limit,
      first |-> first, last |-> last] :
        cursor \in {<<>>, <<"e", "3", "0", "=">>, <<"b", "a", "d", "!">>},
        after \in {<<>>, <<"Y", "W", "J", "j">>},
        before \in {<<>>, <<"e", "3", "0", "=">>},
        limit \in {<<>>, <<"a", "b", "c">>, <<"0">>, <<"5", "0">>, <<"1", "0", "0", "1">>},
        first \in {<<>>, <<"1", "0">>, <<"-", "1">>, BeyondInt(Int32Bits)},
        last \in {<<>>, <<"5">>, <<"x">>}}

MapValues ==
    {MapValue("missing", 0, <<>>, FALSE),
     MapValue("nil", 0, <<>>, FALSE),
     MapValue("bool", 1, <<>>, FALSE),
     MapValue("int", 0, <<>>, FALSE),
     MapValue("int", -2, <<>>, FALSE),
     MapValue("int", 3, <<>>, FALSE),
     MapValue("int", MaxPageSize + 1, <<>>, FALSE),
     MapValue("int64", MaxInt64, <<>>, FALSE),
     MapValue("int64", MaxInt(Int32Bits) + 1, <<>>, FALSE),
     MapValue("int32", 7, <<>>, FALSE),
     MapValue("float64", 2, <<>>, FALSE),
     MapValue("float64", 0, <<>>, FALSE),
     MapValue("float64", 0, <<>>, TRUE),
     MapValue("float32", -1, <<>>, FALSE),
     MapValue("string", 0, <<"4">>, FALSE),
     MapValue("string", 0, <<"f", "o", "u", "r">>, FALSE)}

Maps == {[page |-> page, page_size |-> size] : page \in MapValues, size \in MapValues}

\* cursor paginators with a limit in range: any cursor, either direction
ValidCursorPaginators ==
    {[Cursor |-> cursor, Limit |-> limit, Forward |-> forward] :
        cursor \in {<<>>, <<"a", "b", "c">>, <<"e", "3", "0", "=">>, <<"a", "&", "b", "=", " ">>},
        limit \in {MinPageSize, 7, DefaultPageSize, MaxPageSize},
        forward \in BOOLEAN}

QueryInputs ==
    {[kind |-> "query", bits |-> bits, q |-> q] : bits \in IntSizes, q \in Queries}
    \cup {[kind |-> "map", bits |-> bits, q |-> m] : bits \in IntSizes, m \in Maps}
    \cup {[kind |-> "cursor", bits |-> bits, q |-> q] : bits \in IntSizes, q \in CursorQueries}
    \cup {[kind |-> "paginator", bits |-> bits, q |-> c] : bits \in IntSizes, c \in ValidCursorPaginators}

QueryInit ==
    /\ qin \in QueryInputs
    /\ qout = Nil
    /\ CodecIdle
    /\ RangeIdle
    /\ PaginatorIdle
    /\ GoroutinesIdle
    /\ ResponseIdle
    /\ BuilderIdle
    /\ TraversalIdle

FromQueryCall ==
    /\ qin.kind = "query"
    /\ qout = Nil
    /\ qout' = Ref(FromQuery(qin.q, qin.bits))
    /\ UNCHANGED qin

FromMapCall ==
    /\ qin.kind = "map"
    /\ qout = Nil
    /\ \E p \in FromMap(qin.q, qin.bits) : qout' = Ref(p)
    /\ UNCHANGED qin

CursorFromQueryCall ==
    /\ qin.kind = "cursor"
    /\ qout = Nil
    /\ qout' = Ref(CursorFromQuery(qin.q, qin.bits))
    /\ UNCHANGED qin

\* params := c.QueryParams(), which the next request carries: of is the
\* paginator the query was made of
QueryParamsCall ==
    /\ qin.kind = "paginator"
    /\ qout = Nil
    /\ qin' = [kind |-> "cursor", bits |-> qin.bits, q |-> QueryParams(qin.q), of |-> qin.q]
    /\ UNCHANGED qout

QueryNext ==
    \/ (QueryParamsCall /\ UNCHANGED <<rvars, cvars, pvars, tvars, xvars, bvars, evars>>)
    \/ (FromQueryCall /\ UNCHANGED <<rvars, cvars, pvars, tvars, xvars, bvars, evars>>)
    \/ (FromMapCall /\ UNCHANGED <<rvars, cvars, pvars, tvars, xvars, bvars, evars>>)
    \/ (CursorFromQueryCall /\ UNCHANGED <<rvars, cvars, pvars, tvars, xvars, bvars, evars>>)

SpecQuery == QueryInit /\ [][QueryNext]_vars

----------------------------------------------------------------------------
(* Responses as a state machine: a handler builds the Link header of a page *)
(* or the range response of a slice of items, then asks for its text.       *)

BaseURLs == {<<>>, <<"/", "u">>, <<"h", "t", "t", "p", "s", ":", "/", "/", "e", ".", "c", "o", "m">>}

LinkInputs ==
    {[kind |-> "link", bits |-> bits, base |-> base,
      p |-> [Page |-> page, PageSize |-> size], total |-> total] :
        bits \in IntSizes, base \in BaseURLs,
        page \in {-1, 0, 1, 2, 3, 5, 6}, size \in {0, DefaultPageSize, MaxPageSize},
        total \in {-1, 0, 1, DefaultPageSize, DefaultPageSize + 1, 41, 100}}

ResponseRanges ==
    {NewRange(0, 24), NewRange(5, 5), NewRange(100, 199),
     NewRangeWithUnit(0, 9, <<"b">>), NewRange(MaxInt64 - 1, MaxInt64)}

RangeResponseInputs ==
    {[kind |-> "range", len |-> len, r |-> r, total |-> total] :
        len \in {0, 1, 3, 25}, r \in ResponseRanges, total \in {MinInt64, -1, 0, 1, 100}}

ResponseInputs == LinkInputs \cup RangeResponseInputs

\* what the handler holds: the object built, the text asked for, the calls
\* made to the callback of SetHeader
Built(pc, val, text, calls) == [pc |-> pc, val |-> val, text |-> text, calls |-> calls]

ResponseInit ==
    /\ xin \in ResponseInputs
    /\ xout = Nil
    /\ CodecIdle
    /\ RangeIdle
    /\ PaginatorIdle
    /\ GoroutinesIdle
    /\ QueryIdle
    /\ BuilderIdle
    /\ TraversalIdle

BuildLinkHeaderCall ==
    /\ xin.kind = "link"
    /\ xout = Nil
    /\ xout' = Ref(Built("built", BuildLinkHeader(xin.base, xin.p, xin.total, xin.bits), <<>>, <<>>))
    /\ UNCHANGED xin

StringCall ==
    /\ xin.kind = "link"
    /\ xout # Nil
    /\ Deref(xout).pc = "built"
    /\ xout' = Ref(Built("String", Deref(xout).val, String(Deref(xout).val), <<>>))
    /\ UNCHANGED xin

SetHeaderCall ==
    /\ xin.kind = "link"
    /\ xout # Nil
    /\ Deref(xout).pc = "built"
    /\ xout' = Ref(Built("SetHeader", Deref(xout).val, <<>>, SetHeader(Deref(xout).val)))
    /\ UNCHANGED xin

NewRangeResponseCall ==
    /\ xin.kind = "range"
    /\ xout = Nil
    /\ xout' = Ref(Built("built", NewRangeResponse(xin.len, xin.r, xin.total), <<>>, <<>>))
    /\ UNCHANGED xin

ContentRangeCall ==
    /\ xin.kind = "range"
    /\ xout # Nil
    /\ Deref(xout).pc = "built"
    /\ xout' = Ref(Built("ContentRange", Deref(xout).val, ContentRange(Deref(xout).val), <<>>))
    /\ UNCHANGED xin

ContentRangeHeaderCall ==
    /\ xin.kind = "range"
    /\ xout = Nil
    /\ xout' = Ref(Built("ContentRangeHeader", xin.r, ContentRangeHeader(xin.r, xin.total), <<>>))
    /\ UNCHANGED xin

ResponseNext ==
    \/ (BuildLinkHeaderCall /\ UNCHANGED <<rvars, cvars, pvars, tvars, qvars, bvars, evars>>)
    \/ (StringCall /\ UNCHANGED <<rvars, cvars, pvars, tvars, qvars, bvars, evars>>)
    \/ (SetHeaderCall /\ UNCHANGED <<rvars, cvars, pvars, tvars, qvars, bvars, evars>>)
    \/ (NewRangeResponseCall /\ UNCHANGED <<rvars, cvars, pvars, tvars, qvars, bvars, evars>>)
    \/ (ContentRangeCall /\ UNCHANGED <<rvars, cvars, pvars, tvars, qvars, bvars, evars>>)
    \/ (ContentRangeHeaderCall /\ UNCHANGED <<rvars, cvars, pvars, tvars, qvars, bvars, evars>>)

SpecResponse == ResponseInit /\ [][ResponseNext]_vars

----------------------------------------------------------------------------
(* A forward traversal: a client asks the example server for the first page *)
(* without a cursor, then keeps asking with the nextCursor of the page it    *)
(* received, until a page comes without one.                                 *)

UserIDs == {<<"1">>, <<"2">>, <<"3">>, <<"1", "0">>}

RECURSIVE ListsOfLen(_)
ListsOfLen(n) ==
    IF n = 0 THEN {<<>>}
    ELSE {Append(l, id) : l \in ListsOfLen(n - 1), id \in UserIDs}

\* the lists of users the server can hold, a repeated id included
UserLists == UNION {ListsOfLen(n) : n \in 0..MaxItems}

ClientLimits == 1..MaxLimit

\* requests that end every traversal of a list without a repeated id
MaxRequests == MaxItems + 1

\* the query of the client: limit, and the cursor under after or under cursor
ClientQuery(key, cursor, limit) ==
    [cursor |-> IF key = "cursor" THEN cursor ELSE <<>>,
     after  |-> IF key = "after" THEN cursor ELSE <<>>,
     before |-> <<>>,
     limit  |-> FormatInt(limit),
     first  |-> <<>>,
     last   |-> <<>>]

TraversalInit ==
    /\ items \in UserLists
    /\ elimit \in ClientLimits
    /\ ecursor = <<>>
    /\ epages = <<>>
    /\ epc = "ready"
    /\ CodecIdle
    /\ RangeIdle
    /\ PaginatorIdle
    /\ GoroutinesIdle
    /\ QueryIdle
    /\ ResponseIdle
    /\ BuilderIdle

\* one request and its response
FollowNextCursor ==
    /\ epc = "ready"
    /\ Len(epages) < MaxRequests
    /\ \E key \in {"cursor", "after"} :
          \E page \in {handleCursorPagination(items, ClientQuery(key, ecursor, elimit), Int64Bits)} :
             IF page.status = 200
             THEN /\ epages' = Append(epages, page.items)
                  /\ ecursor' = page.next
                  /\ epc' = IF page.next = <<>> THEN "done" ELSE "ready"
             ELSE /\ epc' = "failed"
                  /\ UNCHANGED <<epages, ecursor>>
    /\ UNCHANGED <<items, elimit>>

TraversalNext ==
    \/ (FollowNextCursor /\ UNCHANGED <<rvars, cvars, pvars, tvars, qvars, xvars, bvars>>)

SpecTraversal == TraversalInit /\ [][TraversalNext]_vars

\* a request answered with a page of the list, whatever the page and the cursors
Answered ==
    /\ epc = "ready"
    /\ Len(epages) < MaxRequests
    /\ \E i \in 0..Len(items), j \in 0..Len(items) :
          epages' = Append(epages, Slice(items, i + 1, j))

\* the client sends the request it can send and the server answers it
SpecTraversalLive == SpecTraversal /\ WF_epages(Answered)

----------------------------------------------------------------------------
(* The Range header grammar, stated on positions instead of by scanning *)

\* h is unit "=" start "-" end with "=" at position i and "-" at position j
SplitsAt(h, i, j) ==
    /\ 1 < i /\ i + 1 < j /\ j <= Len(h)
    /\ h[i] = "=" /\ h[j] = "-"
    /\ \A k \in 1..(i - 1) : h[k] \in WordChars
    /\ \A k \in (i + 1)..(j - 1) : h[k] \in DigitChars
    /\ \A k \in (j + 1)..Len(h) : h[k] \in DigitChars

MatchesGrammar(h) == \E i \in 1..Len(h), j \in 1..Len(h) : SplitsAt(h, i, j)

EqualsAt(h) == CHOOSE i \in 1..Len(h) : \E j \in 1..Len(h) : SplitsAt(h, i, j)
DashAt(h) == CHOOSE j \in 1..Len(h) : SplitsAt(h, EqualsAt(h), j)
UnitText(h) == Slice(h, 1, EqualsAt(h) - 1)
StartText(h) == Slice(h, EqualsAt(h) + 1, DashAt(h) - 1)
EndText(h) == Slice(h, DashAt(h) + 1, Len(h))

HeaderBuilt == rpc = "built" /\ rin.kind = "header"

----------------------------------------------------------------------------
(* Claims about the cursor codec, checked under Spec *)

\* the token in hand is the one EncodeCursor returned for a payload, and
\* DecodeCursor[T] has decoded it with the T it was encoded with
RoundTrip ==
    /\ cpc = "decoded"
    /\ cin.kind = "payload"
    /\ cin.data # Nil
    /\ ctamper = "none"
    /\ cvia = "DecodeCursor"
    /\ cdtype = cin.T

\* field by field; two times are equal when they are the same instant
\* (time.Time.Equal)
SamePayload(a, b) ==
    /\ a.ID = b.ID
    /\ a.Value = b.Value
    /\ TimeEqual(a.Timestamp, b.Timestamp)
    /\ a.Offset = b.Offset

\* time.Time.MarshalJSON refuses a year outside 0..9999
YearHasFourDigits(t) == t.Y >= 0 /\ t.Y <= 9999

NotBase64 == ctamper \in {"malformed", "unpadded", "corrupted"}

BadStructure ==
    \/ ctamper = "truncated"
    \/ ctamper = "forged" /\ cdtype \notin cin.validFor

\* C2: for every non-empty token, DecodeCursor returns (payload, nil) or
\* (nil, ErrInvalidCursor) and nothing else; a token that is not base64url and
\* a token whose bytes are not a valid payload both give (nil,
\* ErrInvalidCursor), never a default payload; forged bytes that are a valid
\* payload give (payload, nil).
C2_DecodeOutcomes ==
    (cpc = "decoded" /\ ctoken # <<>>) =>
        /\ \/ cout # Nil /\ cerr = NoError
           \/ cout = Nil /\ cerr = ErrInvalidCursor
        /\ NotBase64 => (cout = Nil /\ cerr = ErrInvalidCursor)
        /\ BadStructure => (cout = Nil /\ cerr = ErrInvalidCursor)
        /\ (ctamper = "forged" /\ cdtype \in cin.validFor) => (cout # Nil /\ cerr = NoError)

\* base64 of {"id":5}, a number where the string belongs, was refused
C2_Witness ==
    /\ cpc = "decoded"
    /\ cvia = "DecodeCursor"
    /\ ctamper = "forged"
    /\ ctoken = EncodeToString(<<"{", "\"", "i", "d", "\"", ":", "5", "}">>)
    /\ cout = Nil
    /\ cerr = ErrInvalidCursor

\* C3: EncodeCursor(nil) returns ("", nil); DecodeCursor("") and Decode on a
\* paginator whose Cursor is "" return (nil, nil).
C3_EmptyTokenAbsentPayload ==
    /\ (cpc \in {"token", "decoded"} /\ cin.kind = "payload" /\ cin.data = Nil) =>
           (ctoken = <<>> /\ cencerr = NoError)
    /\ (cpc = "decoded" /\ ctoken = <<>>) => (cout = Nil /\ cerr = NoError)

\* the token of the nil payload went through DecodeCursor and came back nil
C3_Witness ==
    /\ cpc = "decoded"
    /\ cvia = "DecodeCursor"
    /\ cin.kind = "payload"
    /\ cin.data = Nil
    /\ ctoken = <<>>
    /\ cout = Nil
    /\ cerr = NoError

ZeroPayloadIssued ==
    /\ cpc \in {"token", "decoded"}
    /\ cin.kind = "payload"
    /\ cin.data = Ref(ZeroCursorData(cin.T))
    /\ ctamper = "none"

\* C4: for a non-nil payload whose fields are all zero, EncodeCursor returns
\* no error and a non-empty token, and DecodeCursor of that token returns no
\* error and a non-nil payload whose fields are all zero.
C4_ZeroPayload ==
    ZeroPayloadIssued =>
        /\ cencerr = NoError
        /\ ctoken # <<>>
        /\ cpc = "decoded" =>
               /\ cerr = NoError
               /\ cout # Nil
               /\ cout = Ref(ZeroCursorData(cdtype))

\* the zero payload of T = string travelled as e30= and came back non-nil
C4_Witness ==
    /\ ZeroPayloadIssued
    /\ cpc = "decoded"
    /\ cin.T = "string"
    /\ cdtype = "string"
    /\ ctoken = <<"e", "3", "0", "=">>
    /\ cout = Ref(ZeroCursorData("string"))
    /\ cerr = NoError

----------------------------------------------------------------------------
(* Claims about the range side, checked under SpecRange *)

\* C5: ParseRangeHeader("") returns (nil, nil); every non-empty header that
\* does not match ^(\w+)=(\d+)-(\d*)$ returns ErrInvalidRange (and no range).
C5_EmptyAndMismatch ==
    HeaderBuilt =>
        /\ rin.header = <<>> => (rng = Nil /\ rerr = NoError)
        /\ (rin.header # <<>> /\ ~MatchesGrammar(rin.header)) =>
               (rng = Nil /\ rerr = ErrInvalidRange)

\* a signed start was rejected as a grammar mismatch
C5_Witness ==
    /\ HeaderBuilt
    /\ rin.header = WellFormed(ItemsUnit, <<"+", "2", "4">>, <<>>)
    /\ ~MatchesGrammar(rin.header)
    /\ rerr = ErrInvalidRange

\* C6: for a header unit=start-end matching the grammar, both numbers
\* representable as int64, the error is ErrInvalidRange exactly when
\* end < start; otherwise there is no error and the range is
\* {start, end, unit} with the unit verbatim.
C6_ClosedRange ==
    (/\ HeaderBuilt
     /\ MatchesGrammar(rin.header)
     /\ EndText(rin.header) # <<>>
     /\ Number(StartText(rin.header)) <= MaxInt64
     /\ Number(EndText(rin.header)) <= MaxInt64)
    =>
    LET start == Number(StartText(rin.header))
        end   == Number(EndText(rin.header))
    IN  /\ (rerr = ErrInvalidRange) <=> (end < start)
        /\ end >= start =>
              /\ rerr = NoError
              /\ rng = Ref([Start |-> start, End |-> end, Unit |-> UnitText(rin.header)])

\* items=0-0 was parsed into the single-element range {0, 0, "items"}
C6_Witness ==
    /\ HeaderBuilt
    /\ rin.header = WellFormed(ItemsUnit, <<"0">>, <<"0">>)
    /\ rerr = NoError
    /\ rng = Ref([Start |-> 0, End |-> 0, Unit |-> ItemsUnit])

\* C7: for an open-ended header unit=start- with start representable as
\* int64, there is no error, Start = start, End = start + DefaultPageSize - 1
\* as a number (no wrap-around), and the range has exactly DefaultPageSize
\* elements.
C7_OpenEndedOnePage ==
    (/\ HeaderBuilt
     /\ MatchesGrammar(rin.header)
     /\ EndText(rin.header) = <<>>
     /\ Number(StartText(rin.header)) <= MaxInt64)
    =>
    LET start == Number(StartText(rin.header))
    IN  /\ rerr = NoError
        /\ rng # Nil
        /\ Deref(rng).Start = start
        /\ Deref(rng).End = start + DefaultPageSize - 1
        /\ Size(Deref(rng)) = DefaultPageSize

\* C8: Size() is End - Start + 1 when End >= Start and 0 when End < Start;
\* it is never negative, and at least 1 for a range that passes Validate.
C8_SizeLaw ==
    rcall = "Size" =>
        LET r == Deref(rng)
        IN  /\ rsize = (IF r.End >= r.Start THEN r.End - r.Start + 1 ELSE 0)
            /\ rsize >= 0
            /\ Validate(r) = NoError => rsize >= 1

\* C9: Validate returns ErrInvalidOffset exactly when Start < 0, otherwise
\* ErrInvalidRange exactly when End < Start, otherwise nil: nil exactly for
\* 0 <= Start <= End.
C9_ValidateOrder ==
    rcall = "Validate" =>
        LET r == Deref(rng)
        IN  /\ (rverr = ErrInvalidOffset) <=> (r.Start < 0)
            /\ r.Start >= 0 => ((rverr = ErrInvalidRange) <=> (r.End < r.Start))
            /\ (rverr = NoError) <=> (0 <= r.Start /\ r.Start <= r.End)
            /\ rverr \in {ErrInvalidOffset, ErrInvalidRange, NoError}

\* a range with a negative start and an end before it: the offset error wins
C9_Witness ==
    /\ rcall = "Validate"
    /\ Deref(rng).Start < 0
    /\ Deref(rng).End < Deref(rng).Start
    /\ rverr = ErrInvalidOffset

\* C10: for a Range with Start >= 0, ToPaginator returns PageSize =
\* DefaultPageSize when Size() <= 0, MaxPageSize when Size() > MaxPageSize,
\* Size() otherwise, and Page = floor(Start / PageSize) + 1.
C10_ToPaginator ==
    (rcall = "ToPaginator" /\ Deref(rng).Start >= 0) =>
        LET r == Deref(rng)
            expected == IF Size(r) <= 0 THEN DefaultPageSize
                        ELSE IF Size(r) > MaxPageSize THEN MaxPageSize
                        ELSE Size(r)
        IN  /\ rpag.PageSize = expected
            /\ rpag.Page = (r.Start \div rpag.PageSize) + 1

----------------------------------------------------------------------------
(* The paginators as objects *)

\* the call made last
Last == hist[Len(hist)]

\* the receiver of the first call as it was when the call was made
Receiver == hist[1].before[hist[1].recv]

\* the size rule of the setters
ExpectedSize(n) ==
    IF n < MinPageSize THEN DefaultPageSize
    ELSE IF n > MaxPageSize THEN MaxPageSize
    ELSE n

\* C11: WithLimit(n) returns a CursorPaginator whose Limit is DefaultPageSize
\* when n < MinPageSize, MaxPageSize when n > MaxPageSize and n otherwise;
\* Paginator.WithPageSize sets PageSize by the same rule.
C11_SizeRule ==
    Len(hist) = 1 =>
        /\ Last.op = "WithLimit" => heap[Last.res].Limit = ExpectedSize(Last.arg)
        /\ Last.op = "WithPageSize" => heap[Last.res].PageSize = ExpectedSize(Last.arg)

\* WithLimit was called with a limit above MaxPageSize
C11_Witness ==
    /\ Len(hist) = 1
    /\ Last.op = "WithLimit"
    /\ Last.arg > MaxPageSize
    /\ heap[Last.res].Limit = MaxPageSize

\* the methods that return a modified copy, and the field each one names
CopyingOps == {"WithPage", "WithPageSize", "WithLimit", "WithCursor", "WithForward", "Clone"}

NamedFields(op) ==
    IF op = "WithPage" THEN {"Page"}
    ELSE IF op = "WithPageSize" THEN {"PageSize"}
    ELSE IF op = "WithLimit" THEN {"Limit"}
    ELSE IF op = "WithCursor" THEN {"Cursor"}
    ELSE IF op = "WithForward" THEN {"Forward"}
    ELSE {}

\* C12: every With* method and Clone returns an object distinct from its
\* receiver, leaves the receiver's fields as they were, changes in the result
\* only the field it names, and an assignment made later to a field of the
\* result never changes the receiver.
C12_CopyOnWrite ==
    (hist # <<>> /\ hist[1].op \in CopyingOps) =>
        /\ hist[1].res # hist[1].recv
        /\ heap[hist[1].recv] = Receiver
        /\ Len(hist) = 1 =>
              \A field \in (DOMAIN Receiver) \ NamedFields(hist[1].op) :
                 heap[hist[1].res][field] = Receiver[field]

\* the page of the copy WithPage returned was assigned to, and the copy now
\* differs from the receiver
C12_Witness ==
    /\ Len(hist) = 2
    /\ hist[1].op = "WithPage"
    /\ hist[2].op = "Assign"
    /\ hist[2].arg = "Page"
    /\ heap[hist[1].res].Page # heap[hist[1].recv].Page

\* C15: for every Paginator that passes Validate, Offset() is the exact
\* product (Page - 1) * PageSize and is not negative.  The product is stated
\* by division: out is a multiple of PageSize whose quotient is Page - 1.
C15_OffsetExact ==
    (Len(hist) = 1 /\ Last.op = "Offset" /\ ValidatePaginator(Receiver) = NilError) =>
        /\ Last.ret >= 0
        /\ Last.ret % Receiver.PageSize = 0
        /\ Last.ret \div Receiver.PageSize = Receiver.Page - 1

\* total / size rounded up, for total > 0 and size > 0
Ceil(total, size) == (total \div size) + (IF total % size > 0 THEN 1 ELSE 0)

\* C16 as stated: TotalPages(total) is ceil(total / PageSize) when total > 0
\* and PageSize > 0, and 0 when total <= 0 or PageSize <= 0.
C16_TotalPagesIsCeil ==
    (Len(hist) = 1 /\ Last.op = "TotalPages") =>
        IF Last.arg <= 0 \/ Receiver.PageSize <= 0
        THEN Last.ret = 0
        ELSE Last.ret = Ceil(Last.arg, Receiver.PageSize)

\* C16: TotalPages(total) is ceil(total / PageSize) when total > 0 and
\* PageSize > 0, capped at the largest value of the platform's int, and 0
\* when total <= 0 or PageSize <= 0.
C16_TotalPagesCapped ==
    (Len(hist) = 1 /\ Last.op = "TotalPages") =>
        IF Last.arg <= 0 \/ Receiver.PageSize <= 0
        THEN Last.ret = 0
        ELSE IF Ceil(Last.arg, Receiver.PageSize) > MaxInt(intSize)
        THEN Last.ret = MaxInt(intSize)
        ELSE Last.ret = Ceil(Last.arg, Receiver.PageSize)

\* on a platform with a 32-bit int, a total whose page count does not fit
C16_Witness ==
    /\ Len(hist) = 1
    /\ Last.op = "TotalPages"
    /\ intSize = Int32Bits
    /\ Receiver.PageSize > 0
    /\ Last.arg > 0
    /\ Ceil(Last.arg, Receiver.PageSize) > MaxInt(Int32Bits)
    /\ Last.ret = MaxInt(Int32Bits)

\* the heap as call i left it
HeapAfter(i) == IF i = Len(hist) THEN heap ELSE hist[i + 1].before

\* C19: Validate on a Paginator, a CursorPaginator or a Range never changes a
\* field of its receiver, and calls repeated on an unchanged receiver return
\* the same outcome.
C19_ValidateReadsOnly ==
    \A i \in DOMAIN hist :
        hist[i].op = "Validate" =>
            /\ HeapAfter(i) = hist[i].before
            /\ \A j \in DOMAIN hist :
                  (/\ hist[j].op = "Validate"
                   /\ hist[j].recv = hist[i].recv
                   /\ hist[j].before[hist[j].recv] = hist[i].before[hist[i].recv])
                  => hist[j].ret = hist[i].ret

\* Validate was called again and again on an object that fails it
C19_Witness ==
    /\ Len(hist) >= 2
    /\ \A i \in DOMAIN hist : hist[i].op = "Validate" /\ hist[i].recv = 1
    /\ Last.ret # NilError
    /\ heap[1] = hist[1].before[1]

\* the cursor decodes
Decodes(cursor) == DecodeCursor("any", cursor).err = NoError

\* C20: Paginator.Validate returns an error matching ErrInvalidPage exactly
\* when Page < 1, otherwise an error matching ErrInvalidPageSize exactly when
\* PageSize is outside [MinPageSize, MaxPageSize], otherwise nil.
\* CursorPaginator.Validate returns ErrInvalidPageSize exactly when Limit is
\* outside that range, otherwise ErrInvalidCursor exactly when Cursor is not
\* empty and does not decode, otherwise nil.
C20_ValidateErrors ==
    (hist # <<>> /\ Last.op = "Validate") =>
        LET o == Last.before[Last.recv]
        IN  /\ IsPaginator(o) =>
                  IF o.Page < 1 THEN ErrorsIs(Last.ret, ErrInvalidPage)
                  ELSE IF o.PageSize < MinPageSize \/ o.PageSize > MaxPageSize
                  THEN ErrorsIs(Last.ret, ErrInvalidPageSize)
                  ELSE Last.ret = NilError
            /\ IsCursorPaginator(o) =>
                  IF o.Limit < MinPageSize \/ o.Limit > MaxPageSize
                  THEN ErrorsIs(Last.ret, ErrInvalidPageSize)
                  ELSE IF o.Cursor # <<>> /\ ~Decodes(o.Cursor)
                  THEN ErrorsIs(Last.ret, ErrInvalidCursor)
                  ELSE Last.ret = NilError

\* a Paginator whose page and page size are both invalid: the page error wins
C20_Witness ==
    /\ hist # <<>>
    /\ Last.op = "Validate"
    /\ IsPaginator(Last.before[Last.recv])
    /\ Last.before[Last.recv].Page < 1
    /\ Last.before[Last.recv].PageSize > MaxPageSize
    /\ ErrorsIs(Last.ret, ErrInvalidPage)

----------------------------------------------------------------------------
(* Goroutines on one shared Paginator *)

\* C13: when goroutines call WithPage, WithPageSize, Offset, HasNext,
\* TotalPages or Clamp on one shared Paginator, in every interleaving no call
\* writes a field of the shared object (it is as every call found it), and
\* each call returns what it returns when it runs alone.
C13_SharedReadOnly ==
    \A g \in Goroutines :
        /\ gor[g].pc # "go" => shared = gor[g].before
        /\ gor[g].pc = "done" =>
              gor[g].res = Invoke(gor[g].op, gor[g].arg, gor[g].before, intSize)

\* two calls that build copies have run to their end, one having loaded its
\* values before the other stored its copy
C13_Witness ==
    /\ gor[1].pc = "done"
    /\ gor[2].pc = "done"
    /\ gor[1].op = "WithPage"
    /\ gor[2].op = "WithPageSize"
    /\ Len(clones) = 2
    /\ clones[1] = gor[2].res.p
    /\ clones[2] = gor[1].res.p
    /\ clones[1] # clones[2]

----------------------------------------------------------------------------
(* Lenient parsing *)

\* the positive int a query text denotes on the platform: an optional sign
\* and decimal digits, nothing else, of a value from 1 to the largest int;
\* 0 for every other text (missing, not a number, not positive, too large)
Denotes(s, bits) ==
    LET body == IF s # <<>> /\ Head(s) \in {"+", "-"} THEN Tail(s) ELSE s
    IN  IF /\ body # <<>>
           /\ \A i \in DOMAIN body : body[i] \in DigitChars
           /\ Head(s) # "-"
           /\ Number(body) <= MaxInt(bits)
        THEN Number(body)
        ELSE 0

\* the text that decides the page size: page_size when it is given, else
\* per_page when it denotes a size, else limit
SizeText(q, bits) ==
    IF q.page_size # <<>> THEN q.page_size
    ELSE IF Denotes(q.per_page, bits) > 0 THEN q.per_page
    ELSE q.limit

\* C14: for every query FromQuery returns a Paginator (never nil) that passes
\* Validate, in which a page that is missing, not a number or not positive is
\* DefaultPage and a page size that is missing, not a number or not positive
\* is DefaultPageSize; FromMap and CursorFromQuery return a paginator for
\* every input too (FromMap's passes Validate, CursorFromQuery's has a limit
\* in range).
C14_LenientParsing ==
    /\ (qin.kind = "query" /\ qout # Nil) =>
          /\ ValidatePaginator(Deref(qout)) = NilError
          /\ Deref(qout).Page =
                (IF Denotes(qin.q.page, qin.bits) > 0
                 THEN Denotes(qin.q.page, qin.bits) ELSE DefaultPage)
          /\ Deref(qout).PageSize =
                (IF Denotes(SizeText(qin.q, qin.bits), qin.bits) > 0
                 THEN ExpectedSize(Denotes(SizeText(qin.q, qin.bits), qin.bits))
                 ELSE DefaultPageSize)
    /\ (qin.kind = "map" /\ qout # Nil) =>
          /\ IsPaginator(Deref(qout))
          /\ ValidatePaginator(Deref(qout)) = NilError
    /\ (qin.kind = "cursor" /\ qout # Nil) =>
          /\ IsCursorPaginator(Deref(qout))
          /\ Deref(qout).Limit >= MinPageSize
          /\ Deref(qout).Limit <= MaxPageSize

\* a query whose page is not a number and whose page_size is not positive,
\* with a usable limit that is not read: both fields are the defaults
C14_Witness ==
    /\ qin.kind = "query"
    /\ qout # Nil
    /\ qin.q.page = <<"a", "b", "c">>
    /\ qin.q.page_size = <<"0">>
    /\ qin.q.limit = <<"5", "0">>
    /\ Deref(qout) = New

----------------------------------------------------------------------------
(* Responses *)

\* C17: a RangeResponse built by NewRangeResponse(items, r, total) has End =
\* r.Start + len(items) - 1 when items is not empty, and ContentRange() is
\* "<unit> */<total>" when items is empty, otherwise
\* "<unit> <start>-<end>/<total>" when the total is known and
\* "<unit> <start>-<end>/*" when the total is negative.
C17_ContentRange ==
    (xin.kind = "range" /\ xout # Nil /\ Deref(xout).pc \in {"built", "ContentRange"}) =>
        LET resp == Deref(xout).val
            span == xin.r.Unit \o <<" ">> \o FormatInt(xin.r.Start) \o <<"-">>
                       \o FormatInt(xin.r.Start + xin.len - 1)
        IN  /\ xin.len > 0 => resp.End = xin.r.Start + xin.len - 1
            /\ Deref(xout).pc = "ContentRange" =>
                  Deref(xout).text =
                     (IF xin.len = 0
                      THEN xin.r.Unit \o <<" ", "*", "/">> \o FormatInt(xin.total)
                      ELSE IF xin.total >= 0
                      THEN span \o <<"/">> \o FormatInt(xin.total)
                      ELSE span \o <<"/", "*">>)

\* the text of a link
Relation(url, rel) == <<"<">> \o url \o <<">", ";", " ", "r", "e", "l", "=", "\"">> \o rel \o <<"\"">>

\* text begins with prefix
StartsWith(text, prefix) ==
    /\ Len(text) >= Len(prefix)
    /\ \A i \in DOMAIN prefix : text[i] = prefix[i]

RECURSIVE Listed(_, _)
\* text is the links of rels, in that order, with ", " between them
Listed(text, rels) ==
    IF rels = <<>> THEN text = <<>>
    ELSE /\ StartsWith(text, Head(rels))
         /\ IF Tail(rels) = <<>> THEN Len(text) = Len(Head(rels))
            ELSE /\ StartsWith(Drop(text, Len(Head(rels))), <<",", " ">>)
                 /\ Listed(Drop(text, Len(Head(rels)) + 2), Tail(rels))

\* the fields of h that are set, in the order first, prev, next, last
SetFields(h) ==
    SelectSeq(<<[url |-> h.First, rel |-> <<"f", "i", "r", "s", "t">>], [url |-> h.Prev, rel |-> <<"p", "r", "e", "v">>],
                [url |-> h.Next, rel |-> <<"n", "e", "x", "t">>], [url |-> h.Last, rel |-> <<"l", "a", "s", "t">>]>>,
              LAMBDA l : l.url # <<>>)

\* their links
Present(h) == [i \in DOMAIN SetFields(h) |-> Relation(SetFields(h)[i].url, SetFields(h)[i].rel)]

\* C18: BuildLinkHeader(base, p, total) includes only the relations that
\* apply: when TotalPages(total) = 0 the four links are empty and String() is
\* the empty string; otherwise First and Last are set, Prev is set exactly
\* when p.Page > 1 and Next exactly when p.Page < TotalPages(total); String()
\* lists the links that are set in the order first, prev, next, last, and
\* SetHeader calls its callback only when that string is not empty.
C18_LinkHeader ==
    (xin.kind = "link" /\ xout # Nil) =>
        LET h == Deref(xout).val
            n == TotalPages(xin.p, xin.total, xin.bits)
        IN  /\ n = 0 => /\ h = LinkHeader(<<>>, <<>>, <<>>, <<>>)
                        /\ Deref(xout).pc = "String" => Deref(xout).text = <<>>
            /\ n # 0 => /\ h.First # <<>>
                        /\ h.Last # <<>>
                        /\ (h.Prev # <<>>) <=> (xin.p.Page > 1)
                        /\ (h.Next # <<>>) <=> (xin.p.Page < n)
            /\ Deref(xout).pc = "String" => Listed(Deref(xout).text, Present(h))
            /\ Deref(xout).pc = "SetHeader" =>
                  /\ (Deref(xout).calls # <<>>) <=> (n # 0)
                  /\ Len(Deref(xout).calls) <= 1
                  /\ \A i \in DOMAIN Deref(xout).calls :
                        /\ Deref(xout).calls[i].key = <<"L", "i", "n", "k">>
                        /\ Listed(Deref(xout).calls[i].value, Present(h))

\* a middle page: the four links are set and String() lists the four
C18_Witness ==
    /\ xin.kind = "link"
    /\ xout # Nil
    /\ Deref(xout).pc = "String"
    /\ xin.p.Page = 3
    /\ xin.total = 100
    /\ xin.p.PageSize = DefaultPageSize
    /\ Len(Present(Deref(xout).val)) = 4
    /\ Deref(xout).text # <<>>

----------------------------------------------------------------------------
(* The forward traversal of the example server *)

RECURSIVE Flatten(_)
\* the pages one after the other
Flatten(pages) == IF pages = <<>> THEN <<>> ELSE Head(pages) \o Flatten(Tail(pages))

\* no id occurs twice
Distinct(l) == \A i, j \in DOMAIN l : l[i] = l[j] => i = j

\* the pages received are the beginning of the list: in order, no gap, no overlap
PagesInOrder == Flatten(epages) = Slice(items, 1, Len(Flatten(epages)))

\* the cursor in hand is the token of the id of the last item received
CursorOfLastItem ==
    /\ epages # <<>>
    /\ epages[Len(epages)] # <<>>
    /\ DecodeCursor("any", ecursor).err = NoError
    /\ DecodeCursor("any", ecursor).data # Nil
    /\ Deref(DecodeCursor("any", ecursor).data).ID = epages[Len(epages)][Len(epages[Len(epages)])]

\* the traversal is over and has visited every item once
Complete == epc = "done" /\ ecursor = <<>> /\ Flatten(epages) = items

\* C21 as stated: the request without a cursor returns items 1..L and a
\* nextCursor that is not empty and encodes the id of the last item returned;
\* each follow-up returns the next L items in order, and following nextCursor
\* visits every item exactly once and ends with an empty nextCursor.
C21_TraversalAsStated ==
    /\ [](epages # <<>> =>
             /\ Len(epages[1]) = elimit
             /\ Len(epages) = 1 => CursorOfLastItem
             /\ PagesInOrder)
    /\ <>Complete

\* the number of items page k holds: L, or what is left of the list
PageLen(k) ==
    IF k * elimit <= Len(items) THEN elimit
    ELSE IF (k - 1) * elimit >= Len(items) THEN 0
    ELSE Len(items) - (k - 1) * elimit

\* C21: against an ordered list of N items with pairwise distinct ids and a
\* limit L, the request without a cursor returns the first min(L, N) items,
\* each follow-up carrying the previous nextCursor returns the next min(L,
\* rest) items in order, nextCursor is not empty exactly when items are left
\* and then encodes the id of the last item returned, no request fails, and
\* the traversal ends, with an empty nextCursor, having visited every item
\* exactly once.
C21_Traversal ==
    /\ [](Distinct(items) =>
             /\ epc # "failed"
             /\ PagesInOrder
             /\ \A k \in DOMAIN epages : Len(epages[k]) = PageLen(k)
             /\ epages # <<>> => ((ecursor # <<>>) <=> (Flatten(epages) # items))
             /\ (epages # <<>> /\ ecursor # <<>>) => CursorOfLastItem
             /\ epc = "done" => Complete)
    /\ [][epc' = "failed" \/ Answered]_vars
    /\ ((epc = "ready" /\ Distinct(items)) ~> Complete)

\* four users with distinct ids were visited in four pages of one
C21_Witness ==
    /\ Distinct(items)
    /\ Len(items) = 4
    /\ elimit = 1
    /\ Len(epages) = 4
    /\ Complete

----------------------------------------------------------------------------
(* Clamp *)

\* max(1, n)
AtLeastOne(n) == IF n < 1 THEN 1 ELSE n

\* the paginator call k of hist was made on, and the one it returned
Before(k) == hist[k].before[hist[k].recv]
Returned(k) == HeapAfter(k)[hist[k].res]

\* C22: Clamp(total) returns a paginator whose Page is p.Page when p.Page <=
\* max(1, TotalPages(total)) and max(1, TotalPages(total)) otherwise, and
\* whose PageSize is p.PageSize; Clamp(total) of the result gives the same
\* Page and PageSize again.
C22_Clamp ==
    \A k \in DOMAIN hist :
        hist[k].op = "Clamp" =>
            /\ Returned(k).Page =
                  IF Before(k).Page <= AtLeastOne(TotalPages(Before(k), hist[k].arg, intSize))
                  THEN Before(k).Page
                  ELSE AtLeastOne(TotalPages(Before(k), hist[k].arg, intSize))
            /\ Returned(k).PageSize = Before(k).PageSize
            /\ (k > 1 /\ hist[k - 1].op = "Clamp" /\ hist[k - 1].arg = hist[k].arg
                    /\ hist[k].recv = hist[k - 1].res)
                  => Returned(k) = Returned(k - 1)

\* a page beyond the last of several pages was clamped, and the result
\* clamped again with the same total
C22_Witness ==
    /\ Len(hist) = 2
    /\ hist[1].op = "Clamp"
    /\ hist[2].op = "Clamp"
    /\ hist[1].res # hist[1].recv
    /\ hist[2].recv = hist[1].res
    /\ Returned(1).Page > 1
    /\ Returned(1).Page < Before(1).Page

\* C23: the pointer Clamp returns is never the receiver, for every receiver
\* and total, and an assignment to a field of the result leaves the receiver
\* as it was.
C23_ClampReturnsNew ==
    \A k \in DOMAIN hist :
        hist[k].op = "Clamp" =>
            /\ hist[k].res # hist[k].recv
            /\ heap[hist[k].recv] = Before(k)

----------------------------------------------------------------------------
(* Padding *)

\* the token decoded is the one EncodeCursor returned for a payload, as it is
\* or without its trailing padding
OwnToken ==
    /\ cpc = "decoded"
    /\ cin.kind = "payload"
    /\ cin.data # Nil
    /\ cencerr = NoError
    /\ ctamper \in {"none", "unpadded"}

\* C24: for every payload p, the token EncodeCursor(p) and the same token
\* without its trailing '=' padding both decode without error, and to the
\* same payload.
C24_PaddedAndUnpadded ==
    OwnToken =>
        /\ cerr = NoError
        /\ cout # Nil
        /\ cout = DecodeCursor(cdtype, EncodeCursor(cin.T, cin.data).token).data

----------------------------------------------------------------------------
(* CursorFromQuery *)

\* the limit a query asks for: last, else first, else limit, whichever is
\* the first to denote a positive int; 0 when none does
LimitAsked(q, bits) ==
    IF Denotes(q.last, bits) > 0 THEN Denotes(q.last, bits)
    ELSE IF Denotes(q.first, bits) > 0 THEN Denotes(q.first, bits)
    ELSE Denotes(q.limit, bits)

C27_QueryParamsRoundTrip ==
    (qin.kind = "cursor" /\ "of" \in DOMAIN qin /\ qout # Nil) =>
        /\ Deref(qout).Cursor = qin.of.Cursor
        /\ Deref(qout).Limit = qin.of.Limit
        /\ Deref(qout).Forward = qin.of.Forward

----------------------------------------------------------------------------
(* The builder API *)

\* C26: every Paginator reached from New() by a sequence of WithPage,
\* WithPageSize, Clamp and Clone with arbitrary arguments has Page >= 1 and
\* MinPageSize <= PageSize <= MaxPageSize, and Validate returns nil for it;
\* every CursorPaginator reached from NewCursor() by a sequence of WithLimit,
\* WithCursor, WithForward and Clone has MinPageSize <= Limit <= MaxPageSize.
C26_BuilderValid ==
    /\ IsPaginator(bcur) =>
          /\ bcur.Page >= 1
          /\ bcur.PageSize >= MinPageSize
          /\ bcur.PageSize <= MaxPageSize
          /\ ValidatePaginator(bcur) = NilError
    /\ IsCursorPaginator(bcur) =>
          /\ bcur.Limit >= MinPageSize
          /\ bcur.Limit <= MaxPageSize

\* WithPage of the most negative int, WithPageSize beyond the maximum, then
\* Clamp of a negative total
C26_Witness ==
    /\ Len(bsteps) = 3
    /\ bsteps[1] = [op |-> "WithPage", arg |-> MinInt(intSize)]
    /\ bsteps[2] = [op |-> "WithPageSize", arg |-> MaxPageSize + 1]
    /\ bsteps[3] = [op |-> "Clamp", arg |-> -1]
    /\ bcur = [Page |-> DefaultPage, PageSize |-> MaxPageSize]

----------------------------------------------------------------------------
(* The pair ParseRangeHeader returns *)

\* C28: ParseRangeHeader never returns a range together with an error: when
\* the error is not nil (no match, a number that does not parse, a failed
\* validation such as end < start) the range is nil, and a range that is not
\* nil has 0 <= Start <= End.
C28_RangeOrError ==
    HeaderBuilt =>
        /\ rerr # NoError => rng = Nil
        /\ rng # Nil => (0 <= Deref(rng).Start /\ Deref(rng).Start <= Deref(rng).End)

----------------------------------------------------------------------------
(* The pages the links point to *)

\* the query of a link: what follows its "?"
LinkQuery(url) ==
    IF \E i \in DOMAIN url : url[i] = "?"
    THEN Drop(url, CHOOSE i \in DOMAIN url : url[i] = "?" /\ \A k \in 1..(i - 1) : url[k] # "?")
    ELSE <<>>

\* the page a link asks for: the number after "page=" at the beginning of
\* its query; 0 when the query does not begin with it
LinkPage(url) ==
    IF StartsWith(LinkQuery(url), <<"p", "a", "g", "e", "=">>)
    THEN ParseDigits(Take(Drop(LinkQuery(url), 5), PrefixLen(Drop(LinkQuery(url), 5), DigitChars)), 0)
    ELSE 0

\* C29: for a paginator with Page >= 1 and a PageSize from MinPageSize to
\* MaxPageSize and a total with TotalPages(total) >= 1, every link
\* BuildLinkHeader sets asks for a page from 1 to TotalPages(total), also
\* when p.Page is beyond the last page.
C29_LinksExist ==
    (/\ xin.kind = "link"
     /\ xout # Nil
     /\ xin.p.Page >= 1
     /\ xin.p.PageSize >= MinPageSize
     /\ xin.p.PageSize <= MaxPageSize
     /\ TotalPages(xin.p, xin.total, xin.bits) >= 1)
    =>
    \A i \in DOMAIN SetFields(Deref(xout).val) :
        /\ LinkPage(SetFields(Deref(xout).val)[i].url) >= 1
        /\ LinkPage(SetFields(Deref(xout).val)[i].url) <= TotalPages(xin.p, xin.total, xin.bits)

----------------------------------------------------------------------------
(* Empty pages, the last page and the next page *)

\* call k is op, with a total of at least least, on a paginator that passes Validate
AsksValid(k, op, least) ==
    /\ hist[k].op = op
    /\ hist[k].arg >= least
    /\ ValidatePaginator(Before(k)) = NilError

\* IsEmpty(total) is true exactly when Page > TotalPages(total)
EmptyIsBeyondLast ==
    \A k \in DOMAIN hist :
        AsksValid(k, "IsEmpty", 0) =>
            (hist[k].ret <=> (Before(k).Page > TotalPages(Before(k), hist[k].arg, intSize)))

\* of HasNext(total) and IsLastPage(total), asked one after the other, exactly
\* one is true
NextOrLast ==
    \A k \in DOMAIN hist :
        (/\ k > 1
         /\ \/ AsksValid(k, "IsLastPage", 1) /\ hist[k - 1].op = "HasNext"
            \/ AsksValid(k, "HasNext", 1) /\ hist[k - 1].op = "IsLastPage")
        => hist[k].ret # hist[k - 1].ret

\* IsEmpty(total) is false on what Clamp(total) returned
ClampedNotEmpty ==
    \A k \in DOMAIN hist :
        (k > 1 /\ AsksValid(k, "IsEmpty", 1) /\ hist[k - 1].op = "Clamp")
        => hist[k].ret = FALSE

\* C30: for a Paginator that passes Validate and total >= 0, IsEmpty(total)
\* holds exactly when Page > TotalPages(total); for total > 0 exactly one of
\* HasNext(total) and IsLastPage(total) holds; after Clamp(total) with total
\* > 0 the page is not empty.
C30_EmptyNextLast ==
    /\ EmptyIsBeyondLast
    /\ NextOrLast
    /\ ClampedNotEmpty

====
